---- MODULE Spec2Model ----
(***************************************************************************)
(* Model of the code-biochemistry simulation engine: the 3D grid of        *)
(* capacity-bounded cells (grid.py), the token (code_token.py), the vent   *)
(* (vent.py), the physics engine (physics.py) and the tick orchestrator    *)
(* (simulation.py), the bonding engine (biochemistry.py) and the damage    *)
(* subsystem (damage.py).                                                  *)
(*                                                                         *)
(* Numbers.  The program keeps positions and velocities as Python floats.  *)
(* The model keeps them in fixed point: one grid cell is Scale units, and  *)
(* every product, quotient or root is truncated toward zero to a whole     *)
(* unit.  int(x) is Trunc.  The cell capacity, the spawn energy and the    *)
(* spawn rate are scaled down from the program's 1000, 50 and 10 so that a *)
(* cell fills, a token runs out of energy and the vent fires within the    *)
(* bounds.  Simulation builds a cube of cells; the model keeps the three   *)
(* sizes of Grid apart and takes a narrow column, so that cells fill.      *)
(***************************************************************************)
EXTENDS Integers, Sequences, FiniteSets, TLC

\* ---------------------------------------------------------------- bounds
SizeX == 2
SizeY == 1
SizeZ == 3
NumTokens == 3
MaxTick == 10
MaxCalls == 4
Scale == 1000
\* Cell.MAX_CAPACITY (1000 in the program), scaled down
MAX_CAPACITY == 6
\* HydrothermalVent.spawn_rate (10 in Simulation.__init__), scaled down
SpawnRate == 3
\* energy of a spawned token (50 in the program), scaled down
SpawnEnergy == 3
\* token objects of the bonding runs
NumBioTokens == 4
\* ticks of a bonding run
MaxBioTick == 3
\* _validate_chains re-validates a chain after 10 ticks; scaled down
ValidateEvery == 2
\* Simulation.step repairs every 20 ticks; scaled down
RepairEvery == 2
\* tokens that carry damage at a time
MaxDamaged == 2
\* ticks of a run of bonding passes without damage
MaxPassTick == 5
\* ticks of a run of whole steps
MaxStepTick == 7
\* physics passes of a run of passes on placed tokens
MaxPhysTick == 2

None == 0
NoCell == <<-1, -1, -1>>
\* chain_id None (chain ids count from 0)
NoChain == -1
\* the token objects of the grid and physics runs
Tokens == 1..NumTokens
\* the token objects of the bonding runs
BioTokens == (NumTokens + 1)..(NumTokens + NumBioTokens)
AllTokens == Tokens \cup BioTokens
Cells == (0..(SizeX - 1)) \X (0..(SizeY - 1)) \X (0..(SizeZ - 1))
\* The token objects the program may construct, each with the value it is
\* constructed with (values from the vent's C_TOKENS); a caller or the vent's
\* random.choice picks any object not constructed yet.
Vocabulary == <<"if", "for", "x">>
BioVocabulary == <<"if", "(", ")", ")">>
ValueOf(t) ==
    IF t \in Tokens THEN Vocabulary[((t - 1) % Len(Vocabulary)) + 1]
    ELSE BioVocabulary[((t - NumTokens - 1) % Len(BioVocabulary)) + 1]

VARIABLES
    value,          \* Token.value; "" while the token object does not exist
    energy,         \* Token.energy
    x, y, z,        \* Token.x, Token.y, Token.z (fixed point)
    vx, vy, vz,     \* Token.vx, Token.vy, Token.vz (fixed point)
    next_token,     \* Token.next_token (None or a token)
    prev_token,     \* Token.prev_token (None or a token)
    chain_id,       \* Token.chain_id (NoChain or a chain id)
    damaged,        \* Token.metadata['damaged']
    type,           \* Token.metadata['type']
    chains,         \* BiochemistryEngine.chains: the list of TokenChain objects
    _next_chain_id, \* TokenChain._next_chain_id
    tokens,         \* Cell.tokens: the token list of every cell
    current_mass,   \* Cell.current_mass of every cell
    all_tokens,     \* Grid.all_tokens
    tick,           \* Simulation.tick
    tick_counter,   \* HydrothermalVent.tick_counter
    pc,             \* position inside Simulation.step
    todo,           \* tokens_to_update not yet visited by the physics pass
    pre_tick,       \* the positions of the tokens when the current tick began
    calls,          \* how many grid operations callers have made
    raised,         \* an exception escaped the running operation
    hung,           \* the running operation walks a cycle of bonds and never returns
    bond_log,       \* the bonds the last bonding pass made, in order
    last            \* the operation that ran last, its token (physics) and result

\* the state of the bonding engine and of the damage subsystem
bioVars == <<prev_token, chain_id, damaged, type, chains, _next_chain_id, hung, bond_log>>

vars == <<value, energy, x, y, z, vx, vy, vz, next_token, tokens,
          current_mass, all_tokens, tick, tick_counter, pc, todo, pre_tick, calls,
          raised, last, bioVars>>

\* ------------------------------------------------------------ arithmetic
Abs(n) == IF n < 0 THEN -n ELSE n
Sign(n) == IF n < 0 THEN -1 ELSE IF n > 0 THEN 1 ELSE 0
Max(a, b) == IF a > b THEN a ELSE b
Min(a, b) == IF a < b THEN a ELSE b
\* quotient truncated toward zero
TDiv(a, b) == Sign(a) * (Abs(a) \div b)
\* int(p) for a fixed-point p: Python truncates toward zero
Trunc(p) == TDiv(p, Scale)
\* float(i) for a cell coordinate i
ToFloat(i) == i * Scale

\* ------------------------------------------------------------------ Token
\* Token.mass: len(value), set by the constructor
Token_mass(t) == Len(ValueOf(t))

MutuallyExclusiveSets ==
    { {"if", "while", "for"}, {"int", "float", "var"}, {"++", "--"}, {"&&", "||"} }

is_mutually_exclusive_with(a, b) ==
    \E S \in MutuallyExclusiveSets :
        ValueOf(a) \in S /\ ValueOf(b) \in S /\ ValueOf(a) # ValueOf(b)

\* Token.get_chain_mass: own mass plus the masses along next_token
RECURSIVE ChainMassFrom(_, _)
ChainMassFrom(t, fuel) ==
    IF t = None \/ fuel = 0 THEN 0
    ELSE Token_mass(t) + ChainMassFrom(next_token[t], fuel - 1)

get_chain_mass(t) == ChainMassFrom(t, NumTokens + NumBioTokens)

\* Token.KEYWORDS, Token.OPERATORS, Token.PUNCTUATION
KEYWORDS == {"if", "else", "for", "while", "function", "class", "return", "int",
             "float", "var", "let", "const"}
OPERATORS == {"+", "-", "*", "/", "=", "==", "!=", "<", ">", "<=", ">=", "&&", "||"}
PUNCTUATION == {"(", ")", "{", "}", "[", "]", ";", ",", "."}

\* Token.MATCHING_PAIRS
MATCHING_PAIRS == [v \in {"(", "{", "["} |->
                      IF v = "(" THEN ")" ELSE IF v = "{" THEN "}" ELSE "]"]

\* HydrothermalVent.C_TOKENS, as a set
C_TOKENS ==
    {"if", "else", "for", "while", "return", "int", "float", "char", "void",
     "struct", "typedef", "sizeof", "const", "static", "break", "continue",
     "+", "-", "*", "/", "=", "==", "!=", "<", ">", "<=", ">=", "&&", "||",
     "++", "--", "+=", "-=", "*=", "/=", "&", "|", "^", "~", "<<", ">>",
     "(", ")", "{", "}", "[", "]", ";", ",", ".", "->", "%",
     "main", "printf", "scanf", "malloc", "free", "NULL", "argc", "argv",
     "i", "j", "k", "x", "y", "z", "n", "count", "sum", "temp", "result",
     "0", "1", "2", "10", "100", "0x00", "0xFF"}

\* every value a token of the program is constructed with
TokenValues == C_TOKENS \cup KEYWORDS \cup OPERATORS \cup PUNCTUATION

\* str.isidentifier() over TokenValues: the words
isidentifier(v) ==
    v \in KEYWORDS \cup
          {"char", "void", "struct", "typedef", "sizeof", "static", "break",
           "continue", "main", "printf", "scanf", "malloc", "free", "NULL", "argc",
           "argv", "i", "j", "k", "x", "y", "z", "n", "count", "sum", "temp", "result"}

\* str.isdigit() over TokenValues
isdigit(v) == v \in {"0", "1", "2", "10", "100"}

\* Token._is_number: float(value) parses; over TokenValues float() takes the
\* decimal numbers only ("0x00" and "0xFF" raise ValueError)
_is_number(v) == v \in {"0", "1", "2", "10", "100"}

\* Token._determine_type
_determine_type(v) ==
    IF v \in KEYWORDS THEN "keyword"
    ELSE IF v \in OPERATORS THEN "operator"
    ELSE IF v \in PUNCTUATION THEN "punctuation"
    ELSE IF isidentifier(v) THEN "identifier"
    ELSE IF isdigit(v) \/ _is_number(v) THEN "literal"
    ELSE "unknown"

\* Token.can_bond_with with "(" bonding to identifiers and literals only
can_bond_with_NoParenKeyword(v1, ty1, d1, v2, ty2, d2) ==
    IF d1 \/ d2 THEN <<FALSE, 0>>
    ELSE IF v1 \in DOMAIN MATCHING_PAIRS /\ v2 = MATCHING_PAIRS[v1] THEN <<TRUE, 100>>
    ELSE IF ty1 = "keyword" /\ v1 \in {"if", "while", "for"} /\ v2 = "("
    THEN <<TRUE, 90>>
    ELSE IF ty1 = "keyword" /\ v1 \in {"int", "float", "var", "let", "const"}
            /\ ty2 = "identifier"
    THEN <<TRUE, 85>>
    ELSE IF ty1 = "operator" /\ v1 = "=" /\ ty2 \in {"identifier", "literal"}
    THEN <<TRUE, 80>>
    ELSE IF ty1 = "operator" /\ v1 \in {"+", "-", "*", "/", "==", "!=", "<", ">"}
            /\ ty2 \in {"identifier", "literal"}
    THEN <<TRUE, 75>>
    ELSE IF v1 = "(" /\ ty2 \in {"identifier", "literal"} THEN <<TRUE, 70>>
    ELSE IF v1 = "," /\ ty2 \in {"identifier", "literal"} THEN <<TRUE, 60>>
    ELSE IF ty1 \in {"identifier", "literal"}
            /\ v2 \in {"+", "-", "*", "/", "=", ";", ",", ")"}
    THEN <<TRUE, 50>>
    ELSE <<FALSE, 0>>

\* Token.can_bond_with, on the fields it reads: the value, the metadata type
\* and the damaged flag of self (1) and of other (2); the result is the pair
\* (can_bond, bond_strength)
can_bond_with(v1, ty1, d1, v2, ty2, d2) ==
    IF d1 \/ d2 THEN <<FALSE, 0>>
    ELSE IF v1 \in DOMAIN MATCHING_PAIRS /\ v2 = MATCHING_PAIRS[v1] THEN <<TRUE, 100>>
    ELSE IF ty1 = "keyword" /\ v1 \in {"if", "while", "for"} /\ v2 = "("
    THEN <<TRUE, 90>>
    ELSE IF ty1 = "keyword" /\ v1 \in {"int", "float", "var", "let", "const"}
            /\ ty2 = "identifier"
    THEN <<TRUE, 85>>
    ELSE IF ty1 = "operator" /\ v1 = "=" /\ ty2 \in {"identifier", "literal"}
    THEN <<TRUE, 80>>
    ELSE IF ty1 = "operator" /\ v1 \in {"+", "-", "*", "/", "==", "!=", "<", ">"}
            /\ ty2 \in {"identifier", "literal"}
    THEN <<TRUE, 75>>
    ELSE IF v1 = "(" /\ ty2 \in {"identifier", "literal", "keyword"} THEN <<TRUE, 70>>
    ELSE IF v1 = "," /\ ty2 \in {"identifier", "literal"} THEN <<TRUE, 60>>
    ELSE IF ty1 \in {"identifier", "literal"}
            /\ v2 \in {"+", "-", "*", "/", "=", ";", ",", ")"}
    THEN <<TRUE, 50>>
    ELSE <<FALSE, 0>>

\* ------------------------------------------------------------------- Cell
\* The mutable state the grid and physics code works on, as one record:
\*   tokens, mass, all  - cell lists, cell masses, Grid.all_tokens
\*   x, y, z, vx, vy, vz, energy - token fields
\*   ret    - the value the last call returned
\*   raised - TRUE once an exception is propagating
Cur == [tokens |-> tokens, mass |-> current_mass, all |-> all_tokens,
        x |-> x, y |-> y, z |-> z, vx |-> vx, vy |-> vy, vz |-> vz,
        energy |-> energy, ret |-> FALSE, raised |-> FALSE]

\* Cell.can_accept with the test of _find_adjacent_cell: some room, not
\* necessarily room for the token
can_accept_SomeRoom(g, c, t) == g.mass[c] < MAX_CAPACITY

can_accept(g, c, t) == g.mass[c] + Token_mass(t) <= MAX_CAPACITY

InList(s, t) == \E i \in 1..Len(s) : s[i] = t

\* list.remove(t): drop the first occurrence
RemoveFirst(s, t) ==
    LET i == CHOOSE k \in 1..Len(s) : s[k] = t /\ \A j \in 1..(k - 1) : s[j] # t
    IN  SubSeq(s, 1, i - 1) \o SubSeq(s, i + 1, Len(s))

\* Cell.add_token without the current_mass update
Cell_add_token_NoMass(g, c, t) ==
    IF can_accept(g, c, t)
    THEN [g EXCEPT !.tokens[c] = Append(@, t), !.ret = TRUE]
    ELSE [g EXCEPT !.ret = FALSE]

Cell_add_token(g, c, t) ==
    IF can_accept(g, c, t)
    THEN [g EXCEPT !.tokens[c] = Append(@, t),
                   !.mass[c] = @ + Token_mass(t),
                   !.ret = TRUE]
    ELSE [g EXCEPT !.ret = FALSE]

Cell_remove_token(g, c, t) ==
    IF InList(g.tokens[c], t)
    THEN [g EXCEPT !.tokens[c] = RemoveFirst(@, t),
                   !.mass[c] = @ - Token_mass(t),
                   !.ret = TRUE]
    ELSE [g EXCEPT !.ret = FALSE]

\* the first token of the cell that excludes t, or None
has_mutually_exclusive_token(g, c, t) ==
    LET s == g.tokens[c]
        hits == {i \in 1..Len(s) : is_mutually_exclusive_with(s[i], t)}
    IN  IF hits = {} THEN None
        ELSE s[CHOOSE i \in hits : \A j \in hits : i <= j]

\* ------------------------------------------------------------------- Grid
is_valid_position(ix, iy, iz) ==
    /\ 0 <= ix /\ ix < SizeX
    /\ 0 <= iy /\ iy < SizeY
    /\ 0 <= iz /\ iz < SizeZ

get_cell(ix, iy, iz) ==
    IF is_valid_position(ix, iy, iz) THEN <<ix, iy, iz>> ELSE NoCell

get_cell_from_float(px, py, pz) == get_cell(Trunc(px), Trunc(py), Trunc(pz))

\* the (dx, dy) pairs of _find_adjacent_cell, in the order the loops visit them
AdjOffsets == << <<-1, -1>>, <<-1, 0>>, <<-1, 1>>, <<0, -1>>,
                 <<0, 1>>, <<1, -1>>, <<1, 0>>, <<1, 1>> >>

_find_adjacent_cell(g, px, py, pz, exclude_cell) ==
    LET ix == Trunc(px)
        iy == Trunc(py)
        iz == Trunc(pz)
        cellAt(i) == get_cell(ix + AdjOffsets[i][1], iy + AdjOffsets[i][2], iz)
        ok == {i \in 1..Len(AdjOffsets) :
                  /\ cellAt(i) # NoCell
                  /\ cellAt(i) # exclude_cell
                  /\ g.mass[cellAt(i)] < MAX_CAPACITY}
    IN  IF ok = {} THEN NoCell
        ELSE cellAt(CHOOSE i \in ok : \A j \in ok : i <= j)

\* Grid.move_token together with Grid._handle_spillover, which calls it back.
\* seen holds the destinations of the calls that are still on the stack.  No
\* state changes between a call and the call it makes, so a destination that
\* comes back is a recursion that never ends: Python raises RecursionError.
RECURSIVE move_token(_, _, _, _, _, _)
_handle_spillover(g, t, full_cell, seen) ==
    LET adjacent == _find_adjacent_cell(g, ToFloat(full_cell[1]), ToFloat(full_cell[2]),
                                        ToFloat(full_cell[3]), full_cell)
    IN  IF adjacent # NoCell
        THEN move_token(g, t, ToFloat(adjacent[1]), ToFloat(adjacent[2]),
                        ToFloat(adjacent[3]), seen)
        ELSE [g EXCEPT !.ret = FALSE]

move_token(g, t, new_x, new_y, new_z, seen) ==
    LET old_cell == get_cell_from_float(g.x[t], g.y[t], g.z[t])
        new_cell == get_cell_from_float(new_x, new_y, new_z)
        seen1 == seen \cup {<<new_x, new_y, new_z>>}
    IN  IF <<new_x, new_y, new_z>> \in seen
        THEN [g EXCEPT !.raised = TRUE, !.ret = FALSE]
        ELSE IF new_cell = NoCell
        THEN LET g1 == IF old_cell # NoCell THEN Cell_remove_token(g, old_cell, t) ELSE g
             IN  [g1 EXCEPT !.all = @ \ {t}, !.ret = FALSE]
        ELSE
          LET exclusive_token == has_mutually_exclusive_token(g, new_cell, t)
              repelled == /\ exclusive_token # None
                          /\ get_chain_mass(t) < get_chain_mass(exclusive_token)
              alt_cell == _find_adjacent_cell(g, new_x, new_y, new_z, new_cell)
              dst == IF repelled THEN alt_cell ELSE new_cell
              dx == IF repelled THEN ToFloat(dst[1]) ELSE new_x
              dy == IF repelled THEN ToFloat(dst[2]) ELSE new_y
              dz == IF repelled THEN ToFloat(dst[3]) ELSE new_z
          IN  IF repelled /\ alt_cell = NoCell
              THEN [g EXCEPT !.ret = FALSE]
              ELSE IF can_accept(g, dst, t)
              THEN LET g1 == IF old_cell # NoCell /\ old_cell # dst
                             THEN Cell_remove_token(g, old_cell, t) ELSE g
                       g2 == Cell_add_token(g1, dst, t)
                   IN  [g2 EXCEPT !.x[t] = dx, !.y[t] = dy, !.z[t] = dz, !.ret = TRUE]
              ELSE _handle_spillover(g, t, dst, seen1)

\* Grid.add_token_to_grid registering the token whatever the cell answered
add_token_to_grid_Always(g, t) ==
    LET cell == get_cell_from_float(g.x[t], g.y[t], g.z[t])
        g1 == IF cell # NoCell THEN Cell_add_token(g, cell, t) ELSE [g EXCEPT !.ret = FALSE]
    IN  [g1 EXCEPT !.all = @ \cup {t}]

add_token_to_grid(g, t) ==
    LET cell == get_cell_from_float(g.x[t], g.y[t], g.z[t])
        g1 == IF cell # NoCell THEN Cell_add_token(g, cell, t) ELSE [g EXCEPT !.ret = FALSE]
    IN  IF g1.ret THEN [g1 EXCEPT !.all = @ \cup {t}] ELSE g1

remove_token_from_grid(g, t) ==
    LET cell == get_cell_from_float(g.x[t], g.y[t], g.z[t])
        g1 == IF cell # NoCell THEN Cell_remove_token(g, cell, t) ELSE g
    IN  [g1 EXCEPT !.all = @ \ {t}, !.ret = FALSE]

\* ---------------------------------------------------------------- physics
\* 0.1 and 0.9 in fixed point
PullUnit == Scale \div 10
Friction(v) == TDiv(v * 9, 10)

\* Token.update_position with a rise that costs no energy
update_position_NoCost(g, t) ==
    LET g1 == IF g.energy[t] > 0
              THEN [g EXCEPT !.z[t] = @ + Scale]
              ELSE [g EXCEPT !.z[t] = @ - Scale]
        g2 == [g1 EXCEPT !.x[t] = @ + g.vx[t], !.y[t] = @ + g.vy[t], !.z[t] = @ + g.vz[t]]
    IN  [g2 EXCEPT !.vx[t] = Friction(@), !.vy[t] = Friction(@), !.vz[t] = Friction(@)]

\* Token.update_position
update_position(g, t) ==
    LET g1 == IF g.energy[t] > 0
              THEN [g EXCEPT !.z[t] = @ + Scale, !.energy[t] = @ - 1]
              ELSE [g EXCEPT !.z[t] = @ - Scale]
        g2 == [g1 EXCEPT !.x[t] = @ + g.vx[t], !.y[t] = @ + g.vy[t], !.z[t] = @ + g.vz[t]]
    IN  [g2 EXCEPT !.vx[t] = Friction(@), !.vy[t] = Friction(@), !.vz[t] = Friction(@)]

\* the horizontal neighbours of a cell that can take the token
PushTargets(g, t, current_cell) ==
    {c \in Cells :
        /\ c[3] = current_cell[3]
        /\ Abs(c[1] - current_cell[1]) <= 1
        /\ Abs(c[2] - current_cell[2]) <= 1
        /\ c # current_cell
        /\ can_accept(g, c, t)}

\* PhysicsEngine._push_token_aside: every outcome random.choice allows
_push_token_aside(g, t, current_cell) ==
    IF PushTargets(g, t, current_cell) = {} THEN {g}
    ELSE {move_token(g, t, ToFloat(c[1]), ToFloat(c[2]), ToFloat(c[3]), {}) :
             c \in PushTargets(g, t, current_cell)}

\* the loop of _handle_collisions over the snapshot list(cell.tokens)
RECURSIVE CollideLoop(_, _, _, _, _)
CollideLoop(g, rising, cell, snap, i) ==
    IF i > Len(snap) \/ g.raised THEN {g}
    ELSE LET other == snap[i]
         IN  IF other # rising /\ g.energy[other] <= 0 /\ g.z[other] < g.z[rising]
             THEN UNION { CollideLoop(h, rising, cell, snap, i + 1) :
                            h \in _push_token_aside([g EXCEPT !.energy[rising] = @ - 1],
                                                    other, cell) }
             ELSE CollideLoop(g, rising, cell, snap, i + 1)

\* PhysicsEngine._handle_collisions: the set of possible results
_handle_collisions(g, rising, old_z) ==
    LET cell == get_cell_from_float(g.x[rising], g.y[rising], g.z[rising])
    IN  IF g.energy[rising] <= 0 THEN {g}
        ELSE IF g.z[rising] <= old_z THEN {g}
        ELSE IF cell = NoCell THEN {g}
        ELSE CollideLoop(g, rising, cell, g.tokens[cell], 1)

\* the (dx, dy, dz) triples of _apply_gravity_pull, in loop order
GravOffsets ==
    LET all == [i \in 1..27 |-> << ((i - 1) \div 9) - 1, (((i - 1) \div 3) % 3) - 1,
                                   ((i - 1) % 3) - 1 >>]
    IN  SelectSeq(all, LAMBDA o : o # <<0, 0, 0>>)

\* the scan for the lowest neighbouring cell that can take the token
RECURSIVE LowestScan(_, _, _, _, _)
LowestScan(g, t, current_cell, i, lowest_cell) ==
    IF i > Len(GravOffsets) THEN lowest_cell
    ELSE LET cell == get_cell(current_cell[1] + GravOffsets[i][1],
                              current_cell[2] + GravOffsets[i][2],
                              current_cell[3] + GravOffsets[i][3])
             lowest_z == IF lowest_cell = NoCell THEN current_cell[3] ELSE lowest_cell[3]
         IN  IF cell # NoCell /\ cell[3] < lowest_z /\ can_accept(g, cell, t)
             THEN LowestScan(g, t, current_cell, i + 1, cell)
             ELSE LowestScan(g, t, current_cell, i + 1, lowest_cell)

\* (dx**2 + dy**2 + dz**2) ** 0.5 in whole units; a token and a neighbour of
\* its cell are less than 4 cells apart
ISqrt(n) == CHOOSE k \in 0..(4 * Scale) : k * k <= n /\ (k + 1) * (k + 1) > n

\* 0.1 * d / distance, truncated to a whole unit
Pull(d, dist2) == Sign(d) * ((PullUnit * Abs(d)) \div ISqrt(dist2))

\* PhysicsEngine._apply_gravity_pull
_apply_gravity_pull(g, t) ==
    LET current_cell == get_cell_from_float(g.x[t], g.y[t], g.z[t])
        lowest_cell == LowestScan(g, t, current_cell, 1, NoCell)
        dx == ToFloat(lowest_cell[1]) - g.x[t]
        dy == ToFloat(lowest_cell[2]) - g.y[t]
        dz == ToFloat(lowest_cell[3]) - g.z[t]
        dist2 == dx * dx + dy * dy + dz * dz
    IN  IF g.energy[t] > 0 THEN g
        ELSE IF current_cell = NoCell THEN g
        ELSE IF lowest_cell = NoCell THEN g
        ELSE IF dist2 > 0
        THEN [g EXCEPT !.vx[t] = @ + Pull(dx, dist2),
                       !.vy[t] = @ + Pull(dy, dist2),
                       !.vz[t] = @ + Pull(dz, dist2)]
        ELSE g

\* update_all_tokens without the clamp of the new position into the grid
MoveOrRevert_NoClamp(h, t, old_x, old_y, old_z) ==
    LET g3 == _apply_gravity_pull(h, t)
        new_x == g3.x[t]
        new_y == g3.y[t]
        new_z == g3.z[t]
        g4 == move_token(g3, t, new_x, new_y, new_z, {})
    IN  IF h.raised THEN [g |-> h, how |-> "raised"]
        ELSE IF new_z < 0
        THEN [g |-> remove_token_from_grid(g3, t), how |-> "culled"]
        ELSE IF g4.raised THEN [g |-> g4, how |-> "raised"]
        ELSE IF g4.ret THEN [g |-> g4, how |-> "moved"]
        ELSE [g |-> [g4 EXCEPT !.x[t] = old_x, !.y[t] = old_y, !.z[t] = old_z],
              how |-> "reverted"]

\* update_all_tokens without the revert of a failed move
MoveOrRevert_NoRevert(h, t, old_x, old_y, old_z) ==
    LET g3 == _apply_gravity_pull(h, t)
        new_x == Max(0, Min(ToFloat(SizeX - 1), g3.x[t]))
        new_y == Max(0, Min(ToFloat(SizeY - 1), g3.y[t]))
        new_z == Max(0, Min(ToFloat(SizeZ - 1), g3.z[t]))
        g4 == move_token(g3, t, new_x, new_y, new_z, {})
    IN  IF h.raised THEN [g |-> h, how |-> "raised"]
        ELSE IF new_z < 0
        THEN [g |-> remove_token_from_grid(g3, t), how |-> "culled"]
        ELSE IF g4.raised THEN [g |-> g4, how |-> "raised"]
        ELSE IF g4.ret THEN [g |-> g4, how |-> "moved"]
        ELSE [g |-> g4, how |-> "reverted"]

\* the body of the loop of PhysicsEngine.update_all_tokens for one token that
\* is still in all_tokens, after the collision step produced h; ret tells how
\* the iteration ended
MoveOrRevert(h, t, old_x, old_y, old_z) ==
    LET g3 == _apply_gravity_pull(h, t)
        new_x == Max(0, Min(ToFloat(SizeX - 1), g3.x[t]))
        new_y == Max(0, Min(ToFloat(SizeY - 1), g3.y[t]))
        new_z == Max(0, Min(ToFloat(SizeZ - 1), g3.z[t]))
        g4 == move_token(g3, t, new_x, new_y, new_z, {})
    IN  IF h.raised THEN [g |-> h, how |-> "raised"]
        ELSE IF new_z < 0
        THEN [g |-> remove_token_from_grid(g3, t), how |-> "culled"]
        ELSE IF g4.raised THEN [g |-> g4, how |-> "raised"]
        ELSE IF g4.ret THEN [g |-> g4, how |-> "moved"]
        ELSE [g |-> [g4 EXCEPT !.x[t] = old_x, !.y[t] = old_y, !.z[t] = old_z],
              how |-> "reverted"]

\* every way one iteration of update_all_tokens can end for token t
PhysicsOutcomes(g, t) ==
    { MoveOrRevert(h, t, g.x[t], g.y[t], g.z[t]) :
        h \in _handle_collisions(update_position(g, t), t, g.z[t]) }

\* the orders in which list(self.grid.all_tokens) can enumerate the set S:
\* Token defines no __hash__, so the set is ordered by object addresses
SetOrders(S) ==
    {o \in [1..Cardinality(S) -> S] : \A i, j \in 1..Cardinality(S) : o[i] = o[j] => i = j}

\* the loop of PhysicsEngine.update_all_tokens over the snapshot order, from
\* its i-th token on: the set of states the pass can end in
RECURSIVE UpdateFrom(_, _, _)
UpdateFrom(g, order, i) ==
    IF i > Len(order) \/ g.raised THEN {g}
    ELSE IF order[i] \notin g.all THEN UpdateFrom(g, order, i + 1)
    ELSE UNION {UpdateFrom(o.g, order, i + 1) : o \in PhysicsOutcomes(g, order[i])}

\* PhysicsEngine.update_all_tokens with the snapshot enumerated as order
update_all_tokens(g, order) == UpdateFrom(g, order, 1)

\* the first lightest token of a list: min(cell.tokens, key=mass)
Lightest(s) ==
    LET i == CHOOSE k \in 1..Len(s) :
                 /\ \A j \in 1..Len(s) : Token_mass(s[k]) <= Token_mass(s[j])
                 /\ \A j \in 1..(k - 1) : Token_mass(s[j]) > Token_mass(s[k])
    IN  s[i]

\* PhysicsEngine._redistribute_tokens.  seen holds the states the while loop
\* has been in; the loop is deterministic, so a state that comes back means
\* the loop never ends, which the model reports as raised.
RECURSIVE _redistribute_tokens(_, _, _)
_redistribute_tokens(g, c, seen) ==
    IF g.raised \/ ~(g.mass[c] > MAX_CAPACITY /\ g.tokens[c] # <<>>) THEN g
    ELSE IF g \in seen THEN [g EXCEPT !.raised = TRUE]
    ELSE LET lightest_token == Lightest(g.tokens[c])
             adjacent == _find_adjacent_cell(g, ToFloat(c[1]), ToFloat(c[2]), ToFloat(c[3]), c)
         IN  IF adjacent # NoCell
             THEN _redistribute_tokens(
                      move_token(g, lightest_token, ToFloat(adjacent[1]),
                                 ToFloat(adjacent[2]), ToFloat(adjacent[3]), {}),
                      c, seen \cup {g})
             ELSE remove_token_from_grid(g, lightest_token)

\* the cells in the order of the x, y, z loops
CellOrder ==
    [i \in 1..(SizeX * SizeY * SizeZ) |->
        << (i - 1) \div (SizeY * SizeZ), ((i - 1) \div SizeZ) % SizeY, (i - 1) % SizeZ >>]

\* PhysicsEngine.handle_spillover
RECURSIVE SweepFrom(_, _)
SweepFrom(g, i) ==
    IF i > Len(CellOrder) \/ g.raised THEN g
    ELSE IF g.mass[CellOrder[i]] > MAX_CAPACITY
    THEN SweepFrom(_redistribute_tokens(g, CellOrder[i], {}), i + 1)
    ELSE SweepFrom(g, i + 1)

handle_spillover(g) == SweepFrom(g, 1)

\* ---------------------------------------------------------------- bonding
\* The mutable state the bonding engine and the damage subsystem work on, as
\* one record:
\*   tokens, x, y, z, energy - cell lists and token fields, as in Cur
\*   next, prev, chain_id, damaged, type - token fields
\*   chains  - the TokenChain objects, in the order of BiochemistryEngine.chains
\*   next_id - TokenChain._next_chain_id
\*   log     - the bonds made so far by the running pass
\*   ret     - the value the last call returned
\*   hung    - TRUE once a loop over next_token cannot end
Bio == [tokens |-> tokens, x |-> x, y |-> y, z |-> z, energy |-> energy,
        next |-> next_token, prev |-> prev_token, chain_id |-> chain_id,
        damaged |-> damaged, type |-> type, chains |-> chains,
        next_id |-> _next_chain_id, log |-> <<>>, ret |-> 0, hung |-> FALSE]

\* the number of token objects: a walk along next_token that has taken this
\* many steps without reaching None is inside a cycle and never ends
Fuel == NumTokens + NumBioTokens

\* Token.can_bond_with on two token objects
TokenCanBond(b, t1, t2) ==
    can_bond_with(ValueOf(t1), b.type[t1], b.damaged[t1],
                  ValueOf(t2), b.type[t2], b.damaged[t2])

\* can_bond and strength > 50
BondsStrongly(b, t1, t2) == TokenCanBond(b, t1, t2)[1] /\ TokenCanBond(b, t1, t2)[2] > 50

\* Token.bond_to; ret is the energy generated
bond_to(b, self, other, cid) ==
    [b EXCEPT !.next[self] = other, !.prev[other] = self,
              !.chain_id[self] = cid, !.chain_id[other] = cid, !.ret = 1]

\* Token.break_bond
break_bond(b, self) ==
    IF b.next[self] # None
    THEN [b EXCEPT !.prev[b.next[self]] = None, !.next[self] = None]
    ELSE b

\* TokenChain.__init__ without the increment of the class counter
TokenChain_init_NoIncrement(b, head_token) ==
    [b EXCEPT !.chains = Append(@, [chain_id |-> b.next_id, head |-> head_token,
                                    tokens |-> <<head_token>>,
                                    is_valid |-> TRUE,
                                    last_validated_tick |-> 0]),
              !.chain_id[head_token] = b.next_id]

\* TokenChain.__init__; the model keeps every TokenChain object in chains
\* (the engine appends the chain it constructs to its list, biochemistry.py:147)
TokenChain_init(b, head_token) ==
    [b EXCEPT !.chains = Append(@, [chain_id |-> b.next_id, head |-> head_token,
                                    tokens |-> <<head_token>>,
                                    is_valid |-> TRUE,
                                    last_validated_tick |-> 0]),
              !.chain_id[head_token] = b.next_id,
              !.next_id = @ + 1]

\* the walk "while tail.next_token: tail = tail.next_token"; None if it cannot end
RECURSIVE TailFrom(_, _, _)
TailFrom(b, t, fuel) ==
    IF b.next[t] = None THEN t
    ELSE IF fuel = 0 THEN None
    ELSE TailFrom(b, b.next[t], fuel - 1)

\* TokenChain.add_token on the chain at index ci of chains
TokenChain_add_token(b, ci, token) ==
    LET tail == TailFrom(b, b.chains[ci].head, Fuel)
    IN  IF tail = None THEN [b EXCEPT !.hung = TRUE]
        ELSE [bond_to(b, tail, token, b.chains[ci].chain_id)
                 EXCEPT !.chains[ci].tokens = Append(@, token)]

\* TokenChain.remove_token
TokenChain_remove_token(b, ci, token) ==
    IF InList(b.chains[ci].tokens, token)
    THEN LET b1 == [b EXCEPT !.chains[ci].tokens = RemoveFirst(@, token)]
             b2 == IF b1.prev[token] # None THEN break_bond(b1, b1.prev[token]) ELSE b1
             b3 == IF b2.next[token] # None
                   THEN [b2 EXCEPT !.prev[b2.next[token]] = None] ELSE b2
         IN  [b3 EXCEPT !.chain_id[token] = NoChain]
    ELSE b

\* TokenChain.get_code_string: ' '.join of the values along next_token
RECURSIVE CodeFrom(_, _, _)
CodeFrom(b, t, fuel) ==
    IF b.next[t] = None \/ fuel = 0 THEN ValueOf(t)
    ELSE ValueOf(t) \o " " \o CodeFrom(b, b.next[t], fuel - 1)

get_code_string(b, ci) == CodeFrom(b, b.chains[ci].head, Fuel)

\* sorted(s, key=energy): Python's sort is stable
RECURSIVE SortByEnergy(_, _)
SortByEnergy(en, s) ==
    IF s = <<>> THEN <<>>
    ELSE LET i == CHOOSE k \in 1..Len(s) :
                      /\ \A j \in 1..Len(s) : en[s[k]] <= en[s[j]]
                      /\ \A j \in 1..(k - 1) : en[s[j]] > en[s[k]]
         IN  <<s[i]>> \o SortByEnergy(en, SubSeq(s, 1, i - 1) \o SubSeq(s, i + 1, Len(s)))

\* "for token in s: token.energy += 1"
RECURSIVE AddEnergy(_, _)
AddEnergy(en, s) ==
    IF s = <<>> THEN en ELSE AddEnergy([en EXCEPT ![Head(s)] = @ + 1], Tail(s))

\* BiochemistryEngine._distribute_energy, giving to the highest-energy tokens
_distribute_energy_Highest(b, ci, amount) ==
    LET tokens_sorted == SortByEnergy([t \in AllTokens |-> -b.energy[t]], b.chains[ci].tokens)
    IN  [b EXCEPT !.energy = AddEnergy(@, SubSeq(tokens_sorted, 1,
                                                   Min(amount, Len(tokens_sorted))))]

\* BiochemistryEngine._distribute_energy
_distribute_energy(b, ci, amount) ==
    LET tokens_sorted == SortByEnergy(b.energy, b.chains[ci].tokens)
    IN  [b EXCEPT !.energy = AddEnergy(@, SubSeq(tokens_sorted, 1,
                                                   Min(amount, Len(tokens_sorted))))]

\* the entry the model logs for what a pass did to the pair (first, other) on
\* behalf of the chain at index ci: kind is "new", "extend", "reconnect" (bond_to
\* ran on self and other) or "drop" (other was removed from the chain).  pre is
\* the state in which the pair was tested, before the state in which bond_to
\* ran, after the state the handling of the pair left.  The entry keeps
\* whether an endpoint was damaged when bond_to ran, the chain's member list
\* and tail afterwards, the energies around the distribution of the bond's
\* energy, and the links and chain ids of all tokens in pre and in after.
BondEvent(kind, pre, before, after, first, self, other, ci) ==
    [kind |-> kind, first |-> first, self |-> self, other |-> other,
     chain |-> after.chains[ci].chain_id,
     damaged |-> before.damaged[self] \/ before.damaged[other],
     members |-> after.chains[ci].tokens,
     tail_after |-> TailFrom(after, after.chains[ci].head, Fuel),
     energy_before |-> before.energy, energy_after |-> after.energy,
     next_before |-> pre.next, prev_before |-> pre.prev,
     chain_id_before |-> pre.chain_id,
     next_after |-> after.next, prev_after |-> after.prev,
     chain_id_after |-> after.chain_id]

\* chain.add_token(token) followed by _distribute_energy(chain, energy), as
\* _create_or_extend_chain and the extension loop both do
AddAndDistribute(pre, first, b, ci, token, kind) ==
    LET tail == TailFrom(b, b.chains[ci].head, Fuel)
        b1 == TokenChain_add_token(b, ci, token)
        b2 == _distribute_energy(b1, ci, b1.ret)
    IN  IF b1.hung THEN b1
        ELSE [b2 EXCEPT !.log = Append(@, BondEvent(kind, pre, b, b2, first, tail,
                                                    token, ci))]

\* BiochemistryEngine._create_or_extend_chain
_create_or_extend_chain(b, token1, token2) ==
    LET b1 == TokenChain_init(b, token1)
    IN  AddAndDistribute(b, token1, b1, Len(b1.chains), token2, "new")

\* the pair loops of _combine_tokens_in_cell over the snapshot free_tokens
RECURSIVE PairLoop(_, _, _, _)
PairLoop(b, free_tokens, i, j) ==
    IF b.hung \/ i > Len(free_tokens) THEN b
    ELSE IF j > Len(free_tokens) THEN PairLoop(b, free_tokens, i + 1, i + 2)
    ELSE IF BondsStrongly(b, free_tokens[i], free_tokens[j])
    THEN PairLoop(_create_or_extend_chain(b, free_tokens[i], free_tokens[j]),
                  free_tokens, i + 1, i + 2)
    ELSE PairLoop(b, free_tokens, i, j + 1)

\* BiochemistryEngine._get_chains_in_cell, as indices into chains
_get_chains_in_cell(b, cell) ==
    LET chain_ids == {b.chain_id[b.tokens[cell][i]] : i \in 1..Len(b.tokens[cell])}
                         \ {NoChain}
    IN  SelectSeq([k \in 1..Len(b.chains) |-> k],
                  LAMBDA k : b.chains[k].chain_id \in chain_ids)

\* the inner loop of the extension: the first free token the tail bonds with
RECURSIVE ExtendChain(_, _, _, _)
ExtendChain(b, ci, free_tokens, j) ==
    IF j > Len(free_tokens) THEN b
    ELSE IF b.chain_id[free_tokens[j]] # NoChain
    THEN ExtendChain(b, ci, free_tokens, j + 1)
    ELSE LET tail == TailFrom(b, b.chains[ci].head, Fuel)
         IN  IF tail = None THEN [b EXCEPT !.hung = TRUE]
             ELSE IF BondsStrongly(b, tail, free_tokens[j])
             THEN AddAndDistribute(b, tail, b, ci, free_tokens[j], "extend")
             ELSE ExtendChain(b, ci, free_tokens, j + 1)

RECURSIVE ExtendLoop(_, _, _, _)
ExtendLoop(b, chains_in_cell, k, free_tokens) ==
    IF b.hung \/ k > Len(chains_in_cell) THEN b
    ELSE ExtendLoop(ExtendChain(b, chains_in_cell[k], free_tokens, 1),
                    chains_in_cell, k + 1, free_tokens)

\* BiochemistryEngine._combine_tokens_in_cell
_combine_tokens_in_cell(b, cell) ==
    LET free_tokens == SelectSeq(b.tokens[cell],
                                 LAMBDA t : b.chain_id[t] = NoChain /\ ~b.damaged[t])
        b1 == PairLoop(b, free_tokens, 1, 2)
    IN  IF free_tokens = <<>> THEN b
        ELSE ExtendLoop(b1, _get_chains_in_cell(b1, cell), 1, free_tokens)

\* BiochemistryEngine._attempt_token_combinations
RECURSIVE CombineFrom(_, _)
CombineFrom(b, i) ==
    IF b.hung \/ i > Len(CellOrder) THEN b
    ELSE IF Len(b.tokens[CellOrder[i]]) < 2 THEN CombineFrom(b, i + 1)
    ELSE CombineFrom(_combine_tokens_in_cell(b, CellOrder[i]), i + 1)

_attempt_token_combinations(b) == CombineFrom(b, 1)

\* BiochemistryEngine._check_grammar_rule without the rule for int, float,
\* char and void
GrammarRuleHolds_NoTypeRule(v1, ty1, ty2) ==
    IF ty1 = "operator" /\ v1 \notin {"++", "--"}
       /\ ty2 \notin {"identifier", "literal", "punctuation"}
    THEN FALSE
    ELSE TRUE

\* BiochemistryEngine._check_grammar_rule on the value and type of token1 and
\* the type of token2
GrammarRuleHolds(v1, ty1, ty2) ==
    IF v1 \in {"int", "float", "char", "void"}
       /\ ty2 \notin {"identifier", "punctuation"}
    THEN FALSE
    ELSE IF ty1 = "operator" /\ v1 \notin {"++", "--"}
            /\ ty2 \notin {"identifier", "literal", "punctuation"}
    THEN FALSE
    ELSE TRUE

\* BiochemistryEngine._check_grammar_rule
_check_grammar_rule(b, token1, token2) ==
    GrammarRuleHolds(ValueOf(token1), b.type[token1], b.type[token2])

\* the body of the loop of _validate_grammar for a token a followed by a token
\* b, each given as (value, type, damaged): how many times the pair is
\* appended to errors
LinkErrors(a, b) ==
    LET r == can_bond_with(a[1], a[2], a[3], b[1], b[2], b[3])
    IN  (IF ~r[1] \/ r[2] < 30 THEN 1 ELSE 0)
        + (IF ~GrammarRuleHolds(a[1], a[2], b[2]) THEN 1 ELSE 0)

\* a token object as (value, type, damaged)
TokenArgs(b, t) == <<ValueOf(t), b.type[t], b.damaged[t]>>

\* the walk of _validate_grammar: the list of invalid pairs, or hung
RECURSIVE ValidateWalk(_, _, _, _)
ValidateWalk(b, current, errors, fuel) ==
    IF b.next[current] = None THEN [errors |-> errors, hung |-> FALSE]
    ELSE IF fuel = 0 THEN [errors |-> errors, hung |-> TRUE]
    ELSE LET next == b.next[current]
             n == LinkErrors(TokenArgs(b, current), TokenArgs(b, next))
             e2 == errors \o [i \in 1..n |-> <<current, next>>]
         IN  ValidateWalk(b, next, e2, fuel - 1)

\* BiochemistryEngine._validate_grammar
_validate_grammar(b, ci) == ValidateWalk(b, b.chains[ci].head, <<>>, Fuel)

\* the first token of the list that is neither of the pair and that token1
\* bonds with strongly, or None
ReconnectTarget(b, cell_tokens, token1, token2) ==
    LET hits == {i \in 1..Len(cell_tokens) :
                    /\ cell_tokens[i] # token1 /\ cell_tokens[i] # token2
                    /\ BondsStrongly(b, token1, cell_tokens[i])}
    IN  IF hits = {} THEN None
        ELSE cell_tokens[CHOOSE i \in hits : \A j \in hits : i <= j]

\* BiochemistryEngine._fix_grammar_errors, from the k-th error on
RECURSIVE _fix_grammar_errors(_, _, _, _)
_fix_grammar_errors(b, ci, errors, k) ==
    IF k > Len(errors) THEN b
    ELSE LET token1 == errors[k][1]
             token2 == errors[k][2]
             b1 == break_bond(b, token1)
             cell == get_cell_from_float(b1.x[token1], b1.y[token1], b1.z[token1])
             other_token == IF cell = NoCell THEN None
                            ELSE ReconnectTarget(b1, b1.tokens[cell], token1, token2)
             b2 == IF cell = NoCell THEN b1
                   ELSE IF other_token # None
                   THEN LET b3 == bond_to(b1, token1, other_token, b1.chains[ci].chain_id)
                        IN  [b3 EXCEPT !.log = Append(@, BondEvent("reconnect", b, b1, b3,
                                                                   token1, token1,
                                                                   other_token, ci))]
                   ELSE LET b4 == TokenChain_remove_token(b1, ci, token2)
                        IN  [b4 EXCEPT !.log = Append(@, BondEvent("drop", b, b1, b4,
                                                                   token1, token1,
                                                                   token2, ci))]
         IN  _fix_grammar_errors(b2, ci, errors, k + 1)

\* the throttle of _validate_chains, taking every chain at every tick
ValidationDue_Always(b, tck, k) == TRUE

\* the throttle of _validate_chains: the negation of the test that skips the
\* chain, "tick - chain.last_validated_tick < 10"
ValidationDue(b, tck, k) == ~(tck - b.chains[k].last_validated_tick < ValidateEvery)

\* the start of a validation that stores the verdict of _validate_grammar in
\* the chain's is_valid
StartValidation_StoresVerdict(b, tck, k) ==
    LET b1 == [b EXCEPT !.chains[k].last_validated_tick = tck,
                        !.log = Append(@, [kind |-> "validate",
                                           chain |-> b.chains[k].chain_id,
                                           last |-> b.chains[k].last_validated_tick,
                                           tick |-> tck])]
        v == _validate_grammar(b1, k)
    IN  [b1 EXCEPT !.chains[k].is_valid = ~v.hung /\ v.errors = <<>>]

\* the start of the validation of the k-th chain: last_validated_tick is set;
\* the verdict of _validate_grammar goes to a local variable, chain.is_valid
\* is not written.  The log gets an entry with the tick of the chain's last
\* validation.
StartValidation(b, tck, k) ==
    [b EXCEPT !.chains[k].last_validated_tick = tck,
              !.log = Append(@, [kind |-> "validate",
                                 chain |-> b.chains[k].chain_id,
                                 last |-> b.chains[k].last_validated_tick,
                                 tick |-> tck])]

\* BiochemistryEngine._validate_chains, from the k-th chain on
RECURSIVE ValidateFrom(_, _, _)
ValidateFrom(b, tck, k) ==
    IF b.hung \/ k > Len(b.chains) THEN b
    ELSE IF ~ValidationDue(b, tck, k)
    THEN ValidateFrom(b, tck, k + 1)
    ELSE LET b1 == StartValidation(b, tck, k)
             v == _validate_grammar(b1, k)
         IN  IF v.hung THEN [b1 EXCEPT !.hung = TRUE]
             ELSE IF v.errors # <<>>
             THEN ValidateFrom(_fix_grammar_errors(b1, k, v.errors, 1), tck, k + 1)
             ELSE ValidateFrom(b1, tck, k + 1)

_validate_chains(b, tck) == ValidateFrom(b, tck, 1)

\* update_all_chains with another clean-up: every chain loses the members whose
\* chain_id is no longer its own, and chains left empty are kept
update_all_chains_PruneOnly(b, tck) ==
    LET b1 == _attempt_token_combinations(b)
        b2 == IF b1.hung THEN b1 ELSE _validate_chains(b1, tck)
    IN  IF b2.hung THEN b2
        ELSE [b2 EXCEPT !.chains =
                 [k \in 1..Len(@) |->
                     [@[k] EXCEPT !.tokens =
                         SelectSeq(@, LAMBDA t : b2.chain_id[t] = b2.chains[k].chain_id)]]]

\* BiochemistryEngine.update_all_chains
update_all_chains(b, tck) ==
    LET b1 == _attempt_token_combinations(b)
        b2 == IF b1.hung THEN b1 ELSE _validate_chains(b1, tck)
    IN  IF b2.hung THEN b2
        ELSE [b2 EXCEPT !.chains = SelectSeq(@, LAMBDA c : c.tokens # <<>>)]

\* ----------------------------------------------------------------- damage
\* the entries the model logs for a damage pass: one for each token whose
\* chain_id _handle_damaged_token cleared (after breaking its bonds), with the
\* chain id it had
SeverLog(before, after) ==
    LET s == SelectSeq([k \in 1..(NumTokens + NumBioTokens) |-> k],
                       LAMBDA t : before[t] # NoChain /\ after[t] = NoChain)
    IN  [i \in 1..Len(s) |-> [kind |-> "sever", self |-> s[i], chain |-> before[s[i]]]]

\* DamageSystem.calculate_damage_probability(z) > 0
CanBeDamaged(b, t) == b.z[t] > 0

\* Token.apply_damage: every outcome random.random() allows, as long as no
\* more than MaxDamaged tokens carry damage
apply_damage(b, t) ==
    IF b.damaged[t] \/ Cardinality({u \in AllTokens : b.damaged[u]}) < MaxDamaged
    THEN {b, [b EXCEPT !.damaged[t] = TRUE],
             [b EXCEPT !.damaged[t] = TRUE, !.type[t] = "unknown"]}
    ELSE {b}

\* DamageSystem._handle_damaged_token: every outcome random.random() allows
_handle_damaged_token(b, t) ==
    IF b.chain_id[t] = NoChain THEN {b}
    ELSE LET b1 == IF b.prev[t] # None THEN break_bond(b, b.prev[t]) ELSE b
             b2 == IF b1.next[t] # None THEN break_bond(b1, t) ELSE b1
         IN  {b, [b2 EXCEPT !.chain_id[t] = NoChain]}

\* the body of the loop of DamageSystem.apply_damage_to_all_tokens for a token
\* that is in all_tokens
DamageOutcomes(b, t) ==
    IF CanBeDamaged(b, t)
    THEN UNION { IF b1.damaged[t] THEN _handle_damaged_token(b1, t) ELSE {b1} :
                   b1 \in apply_damage(b, t) }
    ELSE {b}

\* the loop of apply_damage_to_all_tokens over list(all_tokens), which has no
\* fixed order: F holds the pairs (state, tokens not yet visited) the loop can
\* be in after some number of iterations
RECURSIVE DamageLoop(_)
DamageLoop(F) ==
    IF \A p \in F : p[2] = {} THEN {p[1] : p \in F}
    ELSE DamageLoop(UNION { UNION { {<<b1, p[2] \ {t}>> : b1 \in DamageOutcomes(p[1], t)} :
                                      t \in p[2] } : p \in F })

\* DamageSystem.apply_damage_to_all_tokens: every result it can leave (the
\* pass removes no token, so the test "token not in all_tokens" never skips)
apply_damage_to_all_tokens(b, all) == DamageLoop({<<b, all>>})

\* DamageSystem._calculate_repair_probability(z) > 0; max_altitude is the grid
\* size (simulation.py:35)
CanBeRepaired(b, t) == 2 * b.z[t] < ToFloat(SizeZ)

\* DamageSystem.repair_damaged_tokens when the tokens of S draw a repair
repair_damaged_tokens(b, S) ==
    [b EXCEPT !.damaged = [t \in AllTokens |-> IF t \in S THEN FALSE ELSE @[t]],
              !.type = [t \in AllTokens |->
                           IF t \in S THEN _determine_type(ValueOf(t)) ELSE @[t]]]

\* ------------------------------------------------------------------ state
\* write a record of Cur's shape back to the variables
Commit(g) ==
    /\ tokens' = g.tokens
    /\ current_mass' = g.mass
    /\ all_tokens' = g.all
    /\ x' = g.x /\ y' = g.y /\ z' = g.z
    /\ vx' = g.vx /\ vy' = g.vy /\ vz' = g.vz
    /\ energy' = g.energy
    /\ raised' = g.raised

\* write a record of Bio's shape back to the variables
CommitBio(b) ==
    /\ energy' = b.energy
    /\ next_token' = b.next
    /\ prev_token' = b.prev
    /\ chain_id' = b.chain_id
    /\ damaged' = b.damaged
    /\ type' = b.type
    /\ chains' = b.chains
    /\ _next_chain_id' = b.next_id
    /\ hung' = b.hung

\* the state after construction, but for last
InitFields ==
    /\ value = [t \in AllTokens |-> ""]
    /\ energy = [t \in AllTokens |-> 0]
    /\ x = [t \in AllTokens |-> 0] /\ y = [t \in AllTokens |-> 0] /\ z = [t \in AllTokens |-> 0]
    /\ vx = [t \in AllTokens |-> 0] /\ vy = [t \in AllTokens |-> 0] /\ vz = [t \in AllTokens |-> 0]
    /\ next_token = [t \in AllTokens |-> None]
    /\ prev_token = [t \in AllTokens |-> None]
    /\ chain_id = [t \in AllTokens |-> NoChain]
    /\ damaged = [t \in AllTokens |-> FALSE]
    /\ type = [t \in AllTokens |-> _determine_type(ValueOf(t))]
    /\ chains = <<>>
    /\ _next_chain_id = 0
    /\ hung = FALSE
    /\ bond_log = <<>>
    /\ tokens = [c \in Cells |-> <<>>]
    /\ current_mass = [c \in Cells |-> 0]
    /\ all_tokens = {}
    /\ tick = 0
    /\ tick_counter = 0
    /\ pc = "idle"
    /\ todo = {}
    /\ pre_tick = [x |-> x, y |-> y, z |-> z]
    /\ calls = 0
    /\ raised = FALSE

Init ==
    /\ InitFields
    /\ last = [op |-> "init", t |-> None, ret |-> FALSE]

\* the arguments of one call of Token.can_bond_with: two tokens of any value,
\* undamaged with the type the constructor gave them, or damaged with that
\* type or with the type damage leaves
BondArgs ==
    {<<v, ty, d>> \in TokenValues \X {"keyword", "operator", "punctuation", "identifier",
                                       "literal", "unknown"} \X BOOLEAN :
        ty = _determine_type(v) \/ (d /\ ty = "unknown")}

InitTable ==
    /\ InitFields
    /\ last \in {[op |-> "args", t |-> <<a, b>>, ret |-> <<FALSE, 0>>] :
                    a \in BondArgs, b \in BondArgs}

\* ---------------------------------------------------------------- actions
\* the coordinates callers pass in: cell corners, one position inside a cell,
\* and positions off the grid
CoordsX == {Scale \div 2} \cup {ToFloat(i) : i \in 0..SizeX}
CoordsY == {ToFloat(i) : i \in 0..(SizeY - 1)}
CoordsZ == {ToFloat(i) : i \in 0..(SizeZ - 1)}

\* token objects not constructed yet
Fresh == {t \in AllTokens : value[t] = ""}

\* Token(v, px, py, pz, e) followed by Grid.add_token_to_grid
AddToken(t, px, py, pz, e) ==
    /\ pc = "idle" /\ ~raised /\ calls < MaxCalls /\ t \in Fresh
    /\ calls' = calls + 1
    /\ LET g0 == [Cur EXCEPT !.x[t] = px, !.y[t] = py, !.z[t] = pz, !.energy[t] = e]
           g == add_token_to_grid(g0, t)
       IN  /\ value' = [value EXCEPT ![t] = ValueOf(t)]
           /\ Commit(g)
           /\ last' = [op |-> "add", t |-> None, ret |-> g.ret]
    /\ UNCHANGED <<next_token, tick, tick_counter, pc, todo, pre_tick, bioVars>>

\* Grid.move_token called on a registered token
MoveToken(t, nx, ny, nz) ==
    /\ pc = "idle" /\ ~raised /\ calls < MaxCalls /\ t \in all_tokens
    /\ calls' = calls + 1
    /\ LET g == move_token(Cur, t, nx, ny, nz, {})
       IN  /\ Commit(g)
           /\ last' = [op |-> "move", t |-> None, ret |-> g.ret]
    /\ UNCHANGED <<value, next_token, tick, tick_counter, pc, todo, pre_tick, bioVars>>

\* Grid.remove_token_from_grid called on any token object
RemoveToken(t) ==
    /\ pc = "idle" /\ ~raised /\ calls < MaxCalls /\ value[t] # ""
    /\ calls' = calls + 1
    /\ LET g == remove_token_from_grid(Cur, t)
       IN  /\ Commit(g)
           /\ last' = [op |-> "remove", t |-> None, ret |-> t \in all_tokens]
    /\ UNCHANGED <<value, next_token, tick, tick_counter, pc, todo, pre_tick, bioVars>>

\* StepBegin with a vent that does not reset its counter when it spawns
StepBegin_NoReset(t) ==
    /\ pc = "idle" /\ ~raised /\ tick < MaxTick
    /\ tick' = tick + 1
    /\ IF tick_counter + 1 >= SpawnRate
       THEN /\ t \in Fresh
            /\ LET g0 == [Cur EXCEPT !.x[t] = ToFloat(SizeX \div 2),
                                     !.y[t] = ToFloat(SizeY \div 2),
                                     !.z[t] = ToFloat(0),
                                     !.energy[t] = SpawnEnergy]
                   g == add_token_to_grid(g0, t)
               IN  /\ value' = [value EXCEPT ![t] = ValueOf(t)]
                   /\ Commit(g)
                   /\ todo' = g.all
                   /\ last' = [op |-> "spawn", t |-> None, ret |-> g.ret]
            /\ tick_counter' = tick_counter + 1
       ELSE /\ tick_counter' = tick_counter + 1
            /\ todo' = all_tokens
            /\ last' = [op |-> "step", t |-> None, ret |-> FALSE]
            /\ UNCHANGED <<value, energy, x, y, z, vx, vy, vz, tokens, current_mass,
                           all_tokens, raised>>
    /\ pre_tick' = [x |-> x', y |-> y', z |-> z']
    /\ pc' = "physics"
    /\ UNCHANGED <<next_token, calls, bioVars>>

\* Simulation.step up to the start of the physics pass: the tick advances, the
\* vent is updated and a spawned token is offered to the grid, and
\* update_all_tokens takes its snapshot of all_tokens.  The run ends when the
\* vent is due and NumTokens token objects have been made.
StepBegin(t) ==
    /\ pc = "idle" /\ ~raised /\ tick < MaxTick
    /\ tick' = tick + 1
    /\ IF tick_counter + 1 >= SpawnRate
       THEN /\ t \in Fresh
            /\ LET g0 == [Cur EXCEPT !.x[t] = ToFloat(SizeX \div 2),
                                     !.y[t] = ToFloat(SizeY \div 2),
                                     !.z[t] = ToFloat(0),
                                     !.energy[t] = SpawnEnergy]
                   g == add_token_to_grid(g0, t)
               IN  /\ value' = [value EXCEPT ![t] = ValueOf(t)]
                   /\ Commit(g)
                   /\ todo' = g.all
                   /\ last' = [op |-> "spawn", t |-> None, ret |-> g.ret]
            /\ tick_counter' = 0
       ELSE /\ tick_counter' = tick_counter + 1
            /\ todo' = all_tokens
            /\ last' = [op |-> "step", t |-> None, ret |-> FALSE]
            /\ UNCHANGED <<value, energy, x, y, z, vx, vy, vz, tokens, current_mass,
                           all_tokens, raised>>
    /\ pre_tick' = [x |-> x', y |-> y', z |-> z']
    /\ pc' = "physics"
    /\ UNCHANGED <<next_token, calls, bioVars>>

\* one iteration of the loop of PhysicsEngine.update_all_tokens
PhysicsToken(t) ==
    /\ pc = "physics" /\ ~raised /\ t \in todo
    /\ todo' = todo \ {t}
    /\ IF t \notin all_tokens
       THEN /\ last' = [op |-> "phys", t |-> t, ret |-> "skipped"]
            /\ UNCHANGED <<energy, x, y, z, vx, vy, vz, tokens, current_mass,
                           all_tokens, raised>>
       ELSE \E o \in PhysicsOutcomes(Cur, t) :
                /\ Commit(o.g)
                /\ last' = [op |-> "phys", t |-> t, ret |-> o.how]
    /\ UNCHANGED <<value, next_token, tick, tick_counter, pc, pre_tick, calls, bioVars>>

\* the end of the physics pass and PhysicsEngine.handle_spillover, which
\* closes the tick
SpilloverSweep ==
    /\ pc = "physics" /\ ~raised /\ todo = {}
    /\ Commit(handle_spillover(Cur))
    /\ pc' = "idle"
    /\ last' = [op |-> "sweep", t |-> None, ret |-> FALSE]
    /\ UNCHANGED <<value, next_token, tick, tick_counter, todo, pre_tick, calls, bioVars>>

\* BiochemistryEngine.update_all_chains(tick) for the next tick, step 4 of
\* Simulation.step.  (Step 5, insert_default_values, looks for a "=" before a
\* punctuation token; the bonding runs have no "=".)
BioUpdate ==
    /\ pc = "idle" /\ ~raised /\ ~hung /\ tick < MaxBioTick
    /\ tick' = tick + 1
    /\ LET b == update_all_chains(Bio, tick + 1)
       IN  /\ CommitBio(b)
           /\ bond_log' = b.log
    /\ pc' = "damage"
    /\ last' = [op |-> "bio", t |-> None, ret |-> FALSE]
    /\ UNCHANGED <<value, x, y, z, vx, vy, vz, tokens, current_mass, all_tokens,
                   tick_counter, todo, pre_tick, calls, raised>>

\* DamageSystem.apply_damage_to_all_tokens, step 6 of Simulation.step
DamagePass ==
    /\ pc = "damage" /\ ~hung
    /\ \E b \in apply_damage_to_all_tokens(Bio, all_tokens) :
          /\ CommitBio(b)
          /\ bond_log' = SeverLog(chain_id, b.chain_id)
    /\ pc' = "repair"
    /\ last' = [op |-> "damage", t |-> None, ret |-> FALSE]
    /\ UNCHANGED <<value, x, y, z, vx, vy, vz, tokens, current_mass, all_tokens, tick,
                   tick_counter, todo, pre_tick, calls, raised>>

\* step 7 of Simulation.step, DamageSystem.repair_damaged_tokens every
\* RepairEvery ticks, which closes the tick
Repair ==
    /\ pc = "repair" /\ ~hung
    /\ IF tick % RepairEvery = 0
       THEN \E S \in SUBSET {t \in all_tokens : damaged[t] /\ CanBeRepaired(Bio, t)} :
                CommitBio(repair_damaged_tokens(Bio, S))
       ELSE UNCHANGED <<energy, next_token, prev_token, chain_id, damaged, type, chains,
                        _next_chain_id, hung>>
    /\ pc' = "idle"
    /\ last' = [op |-> "repair", t |-> None, ret |-> FALSE]
    /\ UNCHANGED <<value, x, y, z, vx, vy, vz, tokens, current_mass, all_tokens, tick,
                   tick_counter, todo, pre_tick, calls, raised, bond_log>>

\* BiochemistryEngine.update_all_chains(tick) called tick after tick by a
\* caller that runs no damage pass
BondingPass ==
    /\ pc = "idle" /\ ~raised /\ ~hung /\ tick < MaxPassTick
    /\ tick' = tick + 1
    /\ LET b == update_all_chains(Bio, tick + 1)
       IN  /\ CommitBio(b)
           /\ bond_log' = b.log
    /\ last' = [op |-> "bio", t |-> None, ret |-> FALSE]
    /\ UNCHANGED <<value, x, y, z, vx, vy, vz, tokens, current_mass, all_tokens,
                   tick_counter, pc, todo, pre_tick, calls, raised>>

\* Simulation.step, steps 1 and 2 up to the snapshot of the physics pass: as
\* StepBegin, for a run of whole steps
StepSpawn(t) ==
    /\ tick < MaxStepTick /\ ~hung
    /\ StepBegin(t)

\* StepSweep handing over to the damage pass, the bonding pass left out
StepSweep_SkipsBonding ==
    /\ pc = "physics" /\ ~raised /\ todo = {}
    /\ Commit(handle_spillover(Cur))
    /\ pc' = "damage"
    /\ last' = [op |-> "sweep", t |-> None, ret |-> FALSE]
    /\ UNCHANGED <<value, next_token, tick, tick_counter, todo, pre_tick, calls, bioVars>>

\* the end of the physics pass and step 3 of Simulation.step,
\* PhysicsEngine.handle_spillover, in a whole step
StepSweep ==
    /\ pc = "physics" /\ ~raised /\ todo = {}
    /\ Commit(handle_spillover(Cur))
    /\ pc' = "bio"
    /\ last' = [op |-> "sweep", t |-> None, ret |-> FALSE]
    /\ UNCHANGED <<value, next_token, tick, tick_counter, todo, pre_tick, calls, bioVars>>

\* step 4 of Simulation.step, BiochemistryEngine.update_all_chains(self.tick),
\* in a whole step
StepBonding ==
    /\ pc = "bio" /\ ~raised /\ ~hung
    /\ LET b == update_all_chains(Bio, tick)
       IN  /\ CommitBio(b)
           /\ bond_log' = b.log
    /\ pc' = "damage"
    /\ last' = [op |-> "bio", t |-> None, ret |-> FALSE]
    /\ UNCHANGED <<value, x, y, z, vx, vy, vz, tokens, current_mass, all_tokens, tick,
                   tick_counter, todo, pre_tick, calls, raised>>

\* TokenChain(Token(v, ...)): a caller makes a chain from a token that is in
\* no chain, constructing the token if need be
ChainNew(t) ==
    /\ pc = "idle" /\ calls < MaxCalls /\ chain_id[t] = NoChain
    /\ calls' = calls + 1
    /\ value' = [value EXCEPT ![t] = ValueOf(t)]
    /\ CommitBio(TokenChain_init(Bio, t))
    /\ last' = [op |-> "chain_new", t |-> t, ret |-> FALSE]
    /\ UNCHANGED <<x, y, z, vx, vy, vz, tokens, current_mass, all_tokens, tick,
                   tick_counter, pc, todo, pre_tick, raised, bond_log>>

\* chain.add_token(t) for a token that is in no chain
ChainAdd(ci, t) ==
    /\ pc = "idle" /\ calls < MaxCalls /\ ~hung
    /\ ci \in 1..Len(chains) /\ chain_id[t] = NoChain
    /\ calls' = calls + 1
    /\ value' = [value EXCEPT ![t] = ValueOf(t)]
    /\ CommitBio(TokenChain_add_token(Bio, ci, t))
    /\ last' = [op |-> "chain_add", t |-> t, ret |-> FALSE]
    /\ UNCHANGED <<x, y, z, vx, vy, vz, tokens, current_mass, all_tokens, tick,
                   tick_counter, pc, todo, pre_tick, raised, bond_log>>

\* chain.remove_token(t) for any token object
ChainRemove(ci, t) ==
    /\ pc = "idle" /\ calls < MaxCalls /\ ~hung
    /\ ci \in 1..Len(chains) /\ value[t] # ""
    /\ calls' = calls + 1
    /\ CommitBio(TokenChain_remove_token(Bio, ci, t))
    /\ last' = [op |-> "chain_remove", t |-> t, ret |-> FALSE]
    /\ UNCHANGED <<value, x, y, z, vx, vy, vz, tokens, current_mass, all_tokens, tick,
                   tick_counter, pc, todo, pre_tick, raised, bond_log>>

\* a.can_bond_with(b) on the arguments drawn at the start
CanBondWith ==
    /\ last.op = "args"
    /\ LET a == last.t[1]
           b == last.t[2]
       IN  last' = [op |-> "can_bond_with", t |-> last.t,
                    ret |-> can_bond_with(a[1], a[2], a[3], b[1], b[2], b[3])]
    /\ UNCHANGED <<value, energy, x, y, z, vx, vy, vz, next_token, tokens, current_mass,
                   all_tokens, tick, tick_counter, pc, todo, pre_tick, calls, raised,
                   bioVars>>

\* _validate_grammar on a chain of two tokens, the arguments drawn at the
\* start: (is_valid, len(errors))
ValidateLink ==
    /\ last.op = "args"
    /\ LET n == LinkErrors(last.t[1], last.t[2])
       IN  last' = [op |-> "validate_link", t |-> last.t, ret |-> <<n = 0, n>>]
    /\ UNCHANGED <<value, energy, x, y, z, vx, vy, vz, next_token, tokens, current_mass,
                   all_tokens, tick, tick_counter, pc, todo, pre_tick, calls, raised,
                   bioVars>>

\* callers of the grid's public operations
NextGrid ==
    \/ \E t \in Tokens, px \in CoordsX, py \in CoordsY, pz \in CoordsZ :
           AddToken(t, px, py, pz, SpawnEnergy)
    \/ \E t \in Tokens, nx \in CoordsX, ny \in CoordsY, nz \in CoordsZ :
           MoveToken(t, nx, ny, nz)
    \/ \E t \in Tokens : RemoveToken(t)

\* Simulation.run: one step after another
NextSim ==
    \/ \E t \in Tokens : StepBegin(t)
    \/ \E t \in Tokens : PhysicsToken(t)
    \/ SpilloverSweep

\* the positions and energies the bonding runs construct tokens with
BioCoordsZ == {ToFloat(1)}
BioEnergies == {SpawnEnergy}

\* a bonding run: tokens are placed with add_token_to_grid, and the bonding
\* and damage steps of Simulation.step run on them tick after tick
NextBio ==
    \/ \E t \in BioTokens, pz \in BioCoordsZ, e \in BioEnergies :
           AddToken(t, ToFloat(0), ToFloat(0), pz, e)
    \/ BioUpdate
    \/ DamagePass
    \/ Repair

\* callers of TokenChain's operations
NextChain ==
    \/ \E t \in BioTokens : ChainNew(t)
    \/ \E ci \in 1..MaxCalls, t \in BioTokens : ChainAdd(ci, t)
    \/ \E ci \in 1..MaxCalls, t \in BioTokens : ChainRemove(ci, t)

Next == NextGrid

Spec == Init /\ [][Next]_vars

SpecSim == Init /\ [][NextSim]_vars

\* a step that cannot go on: a loop over next_token that cannot end, or an
\* exception that left the step
Halted == hung \/ raised

SpecBio == Init /\ [][NextBio]_vars

SpecChain == Init /\ [][NextChain]_vars

SpecTable == InitTable /\ [][CanBondWith]_vars

SpecVerdict == InitTable /\ [][ValidateLink]_vars

\* the positions tokens are placed at and moved to in the runs that move
\* tokens between bonding passes: two cells of one layer
DriftCoordsX == {ToFloat(0), ToFloat(1)}

\* tokens are placed and moved with the grid's operations, as the physics
\* pass moves them, and the bonding pass runs tick after tick
NextDrift ==
    \/ \E t \in BioTokens, px \in DriftCoordsX, pz \in BioCoordsZ, e \in BioEnergies :
           AddToken(t, px, ToFloat(0), pz, e)
    \/ \E t \in BioTokens, nx \in DriftCoordsX, nz \in BioCoordsZ :
           MoveToken(t, nx, ToFloat(0), nz)
    \/ BondingPass

SpecDrift == Init /\ [][NextDrift]_vars

\* Simulation.run with every phase of Simulation.step, the vent spawning any
\* of the token objects
NextStep ==
    \/ \E t \in AllTokens : StepSpawn(t)
    \/ \E t \in AllTokens : PhysicsToken(t)
    \/ StepSweep
    \/ StepBonding
    \/ DamagePass
    \/ Repair

SpecStep == Init /\ [][NextStep]_vars


\* the token object the calls of Token.update_position are made on
TheToken == 1

\* energies and velocities a token can have when update_position is called:
\* collisions can take the energy below zero, gravity pulls and pushes leave
\* small velocities
TokenEnergies == -1..SpawnEnergy
TokenVelocities == {-PullUnit, 0, PullUnit, Scale}

\* one Token object, constructed with Token(value, x, y, z, energy) and with
\* the velocity earlier ticks left it, outside any grid
InitToken ==
    /\ value = [t \in AllTokens |-> IF t = TheToken THEN ValueOf(t) ELSE ""]
    /\ \E e \in TokenEnergies :
          energy = [t \in AllTokens |-> IF t = TheToken THEN e ELSE 0]
    /\ x = [t \in AllTokens |-> 0] /\ y = [t \in AllTokens |-> 0]
    /\ \E pz \in CoordsZ : z = [t \in AllTokens |-> IF t = TheToken THEN pz ELSE 0]
    /\ \E v \in {0, PullUnit} : vx = [t \in AllTokens |-> IF t = TheToken THEN v ELSE 0]
    /\ vy = [t \in AllTokens |-> 0]
    /\ \E v \in TokenVelocities :
          vz = [t \in AllTokens |-> IF t = TheToken THEN v ELSE 0]
    /\ next_token = [t \in AllTokens |-> None]
    /\ prev_token = [t \in AllTokens |-> None]
    /\ chain_id = [t \in AllTokens |-> NoChain]
    /\ damaged = [t \in AllTokens |-> FALSE]
    /\ type = [t \in AllTokens |-> _determine_type(ValueOf(t))]
    /\ chains = <<>>
    /\ _next_chain_id = 0
    /\ hung = FALSE
    /\ bond_log = <<>>
    /\ tokens = [c \in Cells |-> <<>>]
    /\ current_mass = [c \in Cells |-> 0]
    /\ all_tokens = {}
    /\ tick = 0
    /\ tick_counter = 0
    /\ pc = "idle"
    /\ todo = {}
    /\ pre_tick = [x |-> x, y |-> y, z |-> z]
    /\ calls = 0
    /\ raised = FALSE
    /\ last = [op |-> "init", t |-> None, ret |-> FALSE]

\* Token.update_position(tick) called on the token object; ret tells whether
\* the token had energy to rise
UpdatePosition ==
    /\ calls < MaxCalls
    /\ calls' = calls + 1
    /\ Commit(update_position(Cur, TheToken))
    /\ last' = [op |-> "update_position", t |-> TheToken, ret |-> energy[TheToken] > 0]
    /\ UNCHANGED <<value, next_token, tick, tick_counter, pc, todo, pre_tick, bioVars>>

SpecToken == InitToken /\ [][UpdatePosition]_vars

\* PhysicsEngine.update_all_tokens(tick) called on a grid a caller filled: the
\* snapshot list(self.grid.all_tokens) is taken
PhysicsBegin ==
    /\ pc = "idle" /\ ~raised /\ tick < MaxPhysTick /\ all_tokens # {}
    /\ tick' = tick + 1
    /\ todo' = all_tokens
    /\ pre_tick' = [x |-> x, y |-> y, z |-> z]
    /\ pc' = "physics"
    /\ last' = [op |-> "pass", t |-> None, ret |-> FALSE]
    /\ UNCHANGED <<value, energy, x, y, z, vx, vy, vz, next_token, tokens, current_mass,
                   all_tokens, tick_counter, calls, raised, bioVars>>

\* the loop of update_all_tokens has run out and the call returns
PhysicsEnd ==
    /\ pc = "physics" /\ ~raised /\ todo = {}
    /\ pc' = "idle"
    /\ last' = [op |-> "passed", t |-> None, ret |-> FALSE]
    /\ UNCHANGED <<value, energy, x, y, z, vx, vy, vz, next_token, tokens, current_mass,
                   all_tokens, tick, tick_counter, todo, pre_tick, calls, raised, bioVars>>

\* the tokens, positions and energies of the physics runs: a keyword and an
\* identifier, on cell corners and inside cells, with energy left for two
\* rises, one rise or none
PhysTokens == {1, 3}
PhysCoordsX == {ToFloat(0), ToFloat(1)}
PhysCoordsZ == {ToFloat(0), Scale \div 2, ToFloat(1), ToFloat(1) + Scale \div 5}
PhysEnergies == 0..2

\* tokens are placed with add_token_to_grid and physics passes run on them
NextPhys ==
    \/ \E t \in PhysTokens, px \in PhysCoordsX, pz \in PhysCoordsZ, e \in PhysEnergies :
           AddToken(t, px, ToFloat(0), pz, e)
    \/ PhysicsBegin
    \/ \E t \in PhysTokens : PhysicsToken(t)
    \/ PhysicsEnd

SpecPhys == Init /\ [][NextPhys]_vars

\* ------------------------------------------------------------ properties
\* how often t occurs in the list s
Count(s, t) == Cardinality({i \in 1..Len(s) : s[i] = t})

\* sum(token.mass for token in s)
RECURSIVE SumMass(_)
SumMass(s) == IF s = <<>> THEN 0 ELSE Token_mass(Head(s)) + SumMass(Tail(s))

\* the list s without the occurrences of t
Others(s, t) == SelectSeq(s, LAMBDA u : u # t)

\* the cell the token's coordinates address in the current state
CellOfToken(t) == get_cell_from_float(x[t], y[t], z[t])

\* C1: at every tick boundary (Simulation.step has run the physics pass and
\* the spillover sweep) every cell's current_mass equals the sum of the
\* masses of the tokens in its list and does not exceed MAX_CAPACITY.
C1_CapacityInvariant ==
    pc = "idle" =>
        \A c \in Cells : /\ current_mass[c] = SumMass(tokens[c])
                         /\ current_mass[c] <= MAX_CAPACITY

\* a tick boundary at which some cell holds several entries
C1_Witness ==
    /\ pc = "idle" /\ last.op = "sweep" /\ tick > 0
    /\ \E c \in Cells : Len(tokens[c]) >= 2

\* C2: every token of all_tokens is listed in exactly one cell, exactly once,
\* and that cell is the one its truncated coordinates address; every token
\* listed in a cell is in all_tokens.
C2_GridInSync ==
    /\ \A t \in all_tokens :
          /\ CellOfToken(t) # NoCell
          /\ \A c \in Cells : Count(tokens[c], t) = (IF c = CellOfToken(t) THEN 1 ELSE 0)
    /\ \A c \in Cells : \A i \in 1..Len(tokens[c]) : tokens[c][i] \in all_tokens

\* C3: a move_token call that returns True leaves the token listed exactly
\* once, in the cell its new coordinates address and in no other cell, with
\* its mass counted once there; the coordinates are the requested position or
\* the cell it was redirected to; nothing else in any cell changes.
C3_SuccessfulMoveEffect ==
    [][\A t \in Tokens, nx \in CoordsX, ny \in CoordsY, nz \in CoordsZ :
          (MoveToken(t, nx, ny, nz) /\ last'.ret = TRUE) =>
              LET d == get_cell_from_float(x'[t], y'[t], z'[t])
              IN  /\ d # NoCell
                  /\ \A c \in Cells : Count(tokens'[c], t) = (IF c = d THEN 1 ELSE 0)
                  /\ \A c \in Cells : Others(tokens'[c], t) = Others(tokens[c], t)
                  /\ \A c \in Cells :
                        current_mass'[c] = SumMass(Others(tokens[c], t))
                                           + (IF c = d THEN Token_mass(t) ELSE 0)
                  /\ \/ <<x'[t], y'[t], z'[t]>> = <<nx, ny, nz>>
                     \/ <<x'[t], y'[t], z'[t]>> = <<ToFloat(d[1]), ToFloat(d[2]), ToFloat(d[3])>>
      ]_vars

\* C4: a move_token call whose new position maps to no cell returns False and
\* leaves the token neither in all_tokens nor in the list of the cell it
\* occupied.
C4_OutOfBoundsMove ==
    [][\A t \in Tokens, nx \in CoordsX, ny \in CoordsY, nz \in CoordsZ :
          (MoveToken(t, nx, ny, nz) /\ get_cell_from_float(nx, ny, nz) = NoCell) =>
              /\ last'.ret = FALSE
              /\ t \notin all_tokens'
              /\ CellOfToken(t) # NoCell => ~InList(tokens'[CellOfToken(t)], t)
      ]_vars

\* C5: a token at z = 0 with energy <= 0 is no longer in all_tokens once the
\* physics pass has processed it.
C5_SinkBelowFloorRemoved ==
    [][\A t \in Tokens :
          (PhysicsToken(t) /\ t \in all_tokens /\ z[t] = 0 /\ energy[t] <= 0) =>
              t \notin all_tokens'
      ]_vars

\* C6: add_token_to_grid returns True only if the token's position maps to a
\* cell with current_mass + mass <= MAX_CAPACITY; when it returns False the
\* cell lists, the cell masses and all_tokens are unchanged.
C6_AdmissionFailureNoChange ==
    [][\A t \in Tokens, px \in CoordsX, py \in CoordsY, pz \in CoordsZ :
          AddToken(t, px, py, pz, SpawnEnergy) =>
              LET c == get_cell_from_float(px, py, pz)
              IN  /\ last'.ret = TRUE =>
                        /\ c # NoCell
                        /\ current_mass[c] + Token_mass(t) <= MAX_CAPACITY
                  /\ last'.ret = FALSE =>
                        /\ tokens' = tokens
                        /\ current_mass' = current_mass
                        /\ all_tokens' = all_tokens
      ]_vars

\* an add was refused by a cell that is exactly at capacity
C6_Witness ==
    /\ last.op = "add" /\ last.ret = FALSE
    /\ \E t \in Tokens :
          /\ value[t] # "" /\ t \notin all_tokens
          /\ CellOfToken(t) # NoCell
          /\ ~InList(tokens[CellOfToken(t)], t)
          /\ current_mass[CellOfToken(t)] = MAX_CAPACITY

\* C7: remove_token_from_grid on a token that is not in all_tokens changes no
\* cell list, no cell mass and not all_tokens, and does not raise.
C7_RemoveAbsentIsNoOp ==
    [][\A t \in Tokens :
          (RemoveToken(t) /\ t \notin all_tokens) =>
              /\ tokens' = tokens
              /\ current_mass' = current_mass
              /\ all_tokens' = all_tokens
              /\ ~raised'
      ]_vars

\* whether the iteration of the physics pass for t ended in the revert
Reverted(t) == PhysicsToken(t) /\ last'.ret = "reverted"

\* what C8 says stays of the tick's changes: the energy spent on rising and
\* in collisions, and the friction and the gravity pull on the velocity
ChangesRetained(t) ==
    /\ energy[t] > 0 => energy'[t] <= energy[t] - 1
    /\ energy[t] <= 0 => energy'[t] = energy[t]
    /\ Abs(vx'[t] - Friction(vx[t])) <= PullUnit
    /\ Abs(vy'[t] - Friction(vy[t])) <= PullUnit
    /\ Abs(vz'[t] - Friction(vz[t])) <= PullUnit

\* C8 as stated: when the physics pass cannot move a token (move_token
\* returned False), the token's coordinates are the ones it had before the
\* tick, it is still listed in the cell it was in before the tick and still
\* in all_tokens, and the energy and velocity changes of the tick stay.
C8_RevertToPreTick ==
    [][\A t \in Tokens :
          Reverted(t) =>
              LET c == get_cell_from_float(pre_tick.x[t], pre_tick.y[t], pre_tick.z[t])
              IN  /\ x'[t] = pre_tick.x[t] /\ y'[t] = pre_tick.y[t] /\ z'[t] = pre_tick.z[t]
                  /\ t \in all_tokens'
                  /\ c # NoCell
                  /\ InList(tokens'[c], t)
                  /\ ChangesRetained(t)
      ]_vars

\* C8 (amended): when the physics pass cannot move a token, the token's
\* coordinates are the ones it had when its own iteration of the pass began
\* (the position a push earlier in the pass gave it, if it was pushed), it is
\* still listed in the cell of that position and still in all_tokens, and the
\* energy and velocity changes of the tick stay.
C8_RevertOnMoveFailure ==
    [][\A t \in Tokens :
          Reverted(t) =>
              /\ x'[t] = x[t] /\ y'[t] = y[t] /\ z'[t] = z[t]
              /\ t \in all_tokens'
              /\ CellOfToken(t) # NoCell
              /\ InList(tokens'[CellOfToken(t)], t)
              /\ ChangesRetained(t)
      ]_vars

\* a physics iteration has just ended in the revert for a token that a rising
\* token pushed aside earlier in the same pass: it is registered, and listed
\* in the cell of the position the push gave it
C8_Witness ==
    /\ last.op = "phys" /\ last.ret = "reverted"
    /\ last.t \in all_tokens
    /\ <<x[last.t], y[last.t], z[last.t]>>
           # <<pre_tick.x[last.t], pre_tick.y[last.t], pre_tick.z[last.t]>>
    /\ InList(tokens[CellOfToken(last.t)], last.t)

\* C9: after move_token into a cell that holds a token mutually exclusive
\* with the mover, the two are not both in that cell.
C9_ExclusiveTokensApart ==
    [][\A t \in Tokens, nx \in CoordsX, ny \in CoordsY, nz \in CoordsZ :
          LET d == get_cell_from_float(nx, ny, nz)
          IN  (MoveToken(t, nx, ny, nz) /\ d # NoCell
                 /\ has_mutually_exclusive_token(Cur, d, t) # None) =>
                  ~(/\ InList(tokens'[d], t)
                    /\ InList(tokens'[d], has_mutually_exclusive_token(Cur, d, t)))
      ]_vars

\* C10: every move_token call of the physics pass (its destination is
\* clamped into the grid) returns True or False without raising, and when it
\* returns False the token's position is the one it had before.
C10_MoveTerminates ==
    [][\A t \in Tokens :
          PhysicsToken(t) =>
              /\ ~raised'
              /\ last'.ret = "reverted" => (x'[t] = x[t] /\ y'[t] = y[t] /\ z'[t] = z[t])
      ]_vars

\* ---------------------------------------------------- bonding properties
\* the tokens met by following next_token from t, t first
RECURSIVE TraverseFrom(_, _)
TraverseFrom(t, fuel) ==
    IF t = None \/ fuel = 0 THEN <<>>
    ELSE <<t>> \o TraverseFrom(next_token[t], fuel - 1)

Traversal(t) == TraverseFrom(t, Fuel + 1)

\* the members of a list, as a set
Members(s) == {s[i] : i \in 1..Len(s)}

\* C11: in every state reachable through the bonding engine and the damage
\* subsystem, for all tokens A and B, A.next_token is B if and only if
\* B.prev_token is A.
C11_BondSymmetry ==
    \A a \in AllTokens, b \in AllTokens :
        (next_token[a] = b) <=> (prev_token[b] = a)

\* C12: no token is in the tokens list of two different chains of
\* BiochemistryEngine.chains, and no token is reachable along next_token from
\* the heads of two different chains.
C12_OneChainPerToken ==
    \A i \in 1..Len(chains), j \in 1..Len(chains) :
        i # j =>
            /\ Members(chains[i].tokens) \cap Members(chains[j].tokens) = {}
            /\ Members(Traversal(chains[i].head)) \cap Members(Traversal(chains[j].head)) = {}

\* C13: at every tick boundary, for every chain of BiochemistryEngine.chains,
\* the tokens list is the sequence met by following next_token from head.
C13_ChainConsistency ==
    pc = "idle" =>
        \A i \in 1..Len(chains) : chains[i].tokens = Traversal(chains[i].head)

\* C14: following next_token from any token never comes back to a token, so
\* every walk along next_token ends (no operation hangs).
C14_Acyclic ==
    /\ ~hung
    /\ \A t \in AllTokens : TailFrom(Bio, t, Fuel) # None

\* whether u was an endpoint of a bond that the step broke
BondBroken(u) ==
    \/ next_token[u] # None /\ next_token'[u] # next_token[u]
    \/ \E a \in AllTokens : next_token[a] = u /\ next_token'[a] # u

\* C15: both endpoints of every live bond carry the same chain_id, which is
\* not None; and when a step breaks a bond, an endpoint that is left with
\* neither a next nor a prev bond does not keep its chain_id.
C15_ChainIdTracksBonds ==
    /\ [](\A a \in AllTokens :
             next_token[a] # None =>
                 /\ chain_id[a] # NoChain
                 /\ chain_id[a] = chain_id[next_token[a]])
    /\ [][\A u \in AllTokens :
             (/\ BondBroken(u)
              /\ next_token'[u] = None
              /\ ~\E a \in AllTokens : next_token'[a] = u) =>
                 chain_id'[u] = NoChain]_vars

\* C16: after TokenChain.remove_token(t) for a member t of the chain, t is
\* not in the chain's tokens list, t.chain_id is None, t.prev_token and
\* t.next_token are None, and no other token's next_token or prev_token is t.
C16_RemoveSeversLinks ==
    [][\A ci \in 1..MaxCalls, t \in BioTokens :
          (ChainRemove(ci, t) /\ InList(chains[ci].tokens, t)) =>
              /\ ~InList(chains'[ci].tokens, t)
              /\ chain_id'[t] = NoChain
              /\ prev_token'[t] = None /\ next_token'[t] = None
              /\ \A u \in AllTokens : next_token'[u] # t /\ prev_token'[u] # t
      ]_vars

\* C17: can_bond_with answers (False, 0) whenever either token is damaged, and
\* no bond the bonding engine makes (new chain, chain extension, reconnect of
\* the grammar repair) has an endpoint that is damaged when it is made.
C17_DamagedNeverBond ==
    /\ \A a \in AllTokens, b \in AllTokens :
          (damaged[a] \/ damaged[b]) => TokenCanBond(Bio, a, b) = <<FALSE, 0>>
    /\ \A i \in 1..Len(bond_log) :
          bond_log[i].kind \in {"new", "extend", "reconnect"} => ~bond_log[i].damaged

\* the strengths of the rules of the bond-strength table that apply to a
\* token of value v1 and type ty1 followed by one of value v2 and type ty2
TableStrengths(v1, ty1, v2, ty2) ==
    (IF <<v1, v2>> \in {<<"(", ")">>, <<"{", "}">>, <<"[", "]">>} THEN {100} ELSE {})
    \cup (IF v1 \in {"if", "while", "for"} /\ v2 = "(" THEN {90} ELSE {})
    \cup (IF v1 \in {"int", "float", "var", "let", "const"} /\ ty2 = "identifier"
          THEN {85} ELSE {})
    \cup (IF v1 = "=" /\ ty2 \in {"identifier", "literal"} THEN {80} ELSE {})
    \cup (IF v1 \in {"+", "-", "*", "/", "==", "!=", "<", ">"}
             /\ ty2 \in {"identifier", "literal"} THEN {75} ELSE {})
    \cup (IF v1 = "(" /\ ty2 \in {"identifier", "literal", "keyword"} THEN {70} ELSE {})
    \cup (IF v1 = "," /\ ty2 \in {"identifier", "literal"} THEN {60} ELSE {})
    \cup (IF ty1 \in {"identifier", "literal"}
             /\ v2 \in {"+", "-", "*", "/", "=", ";", ",", ")"} THEN {50} ELSE {})

\* C18: for every ordered pair of undamaged tokens, can_bond_with returns the
\* strength of the rule of the table that applies (matching delimiters 100;
\* if/while/for then "(" 90; int/float/var/let/const then identifier 85; "="
\* then identifier or literal 80; + - * / == != < > then identifier or literal
\* 75; "(" then identifier, literal or keyword 70; "," then identifier or
\* literal 60; identifier or literal then one of + - * / = ; , ) 50) and
\* (False, 0) when none applies; can_bond is true exactly when the strength
\* is positive, and the strength is within 0..100.
C18_BondStrengthTable ==
    last.op = "can_bond_with" =>
        LET a == last.t[1]
            b == last.t[2]
            rules == TableStrengths(a[1], a[2], b[1], b[2])
        IN  /\ last.ret[2] \in 0..100
            /\ last.ret[1] <=> last.ret[2] > 0
            /\ (~a[3] /\ ~b[3]) =>
                  /\ Cardinality(rules) <= 1
                  /\ rules = {} => last.ret = <<FALSE, 0>>
                  /\ rules # {} => last.ret[1] /\ last.ret[2] \in rules

\* can_bond_with has answered for "(" followed by an undamaged keyword
C18_Witness ==
    /\ last.op = "can_bond_with"
    /\ last.t[1] = <<"(", "punctuation", FALSE>>
    /\ last.t[2] = <<"if", "keyword", FALSE>>
    /\ last.ret = <<TRUE, 70>>

\* the chains whose tokens list holds t, as indices into chains'
ChainsOf(cs, t) == {k \in 1..Len(cs) : InList(cs[k].tokens, t)}

\* C19: if a cell holds a free, undamaged opening delimiter and a free,
\* undamaged matching closing delimiter and nothing else, then after one
\* update_all_chains the two form a single chain of 2 members whose head is
\* the opener, whose code string is the opener, a space and the closer, with
\* a bond of strength 100.
C19_DelimiterBonding ==
    [][\A c \in Cells, o \in AllTokens, cl \in AllTokens :
          (/\ BioUpdate
           /\ Members(tokens[c]) = {o, cl} /\ Len(tokens[c]) = 2
           /\ ValueOf(o) \in DOMAIN MATCHING_PAIRS
           /\ ValueOf(cl) = MATCHING_PAIRS[ValueOf(o)]
           /\ chain_id[o] = NoChain /\ chain_id[cl] = NoChain
           /\ ~damaged[o] /\ ~damaged[cl]) =>
              /\ ~hung'
              /\ ChainsOf(chains', o) = ChainsOf(chains', cl)
              /\ Cardinality(ChainsOf(chains', o)) = 1
              /\ \A k \in ChainsOf(chains', o) :
                    /\ chains'[k].tokens = <<o, cl>>
                    /\ chains'[k].head = o
                    /\ next_token'[o] = cl /\ prev_token'[cl] = o
                    /\ next_token'[cl] = None
                    /\ ValueOf(o) \o " " \o ValueOf(cl)
                           = CodeFrom([next |-> next_token'], o, Fuel)
              /\ can_bond_with(ValueOf(o), type'[o], damaged'[o],
                               ValueOf(cl), type'[cl], damaged'[cl]) = <<TRUE, 100>>
      ]_vars

\* the sum of en over the tokens of S
RECURSIVE SumEnergy(_, _)
SumEnergy(en, S) ==
    IF S = {} THEN 0
    ELSE LET t == CHOOSE u \in S : TRUE IN en[t] + SumEnergy(en, S \ {t})

\* C20: each bond the combination pass makes (starting a chain or extending
\* one) raises the sum of the energies of the chain's members by exactly 1,
\* the unit goes to a member whose energy was minimal among the members, and
\* no other token's energy changes; the pass changes no energy otherwise.
C20_EnergyAtBonding ==
    [][BioUpdate =>
          LET L == SelectSeq(bond_log', LAMBDA ev : ev.kind \in {"new", "extend"})
          IN  /\ \A i \in 1..Len(L) :
                    LET m == Members(L[i].members)
                        eb == L[i].energy_before
                        ea == L[i].energy_after
                    IN  /\ SumEnergy(ea, m) = SumEnergy(eb, m) + 1
                        /\ \E r \in m :
                              /\ \A u \in m : eb[r] <= eb[u]
                              /\ ea = [eb EXCEPT ![r] = @ + 1]
                        /\ eb = (IF i = 1 THEN energy ELSE L[i - 1].energy_after)
              /\ energy' = (IF L = <<>> THEN energy ELSE L[Len(L)].energy_after)
      ]_vars

\* the last pass extended a chain whose members' energies differed, and the
\* unit went to a member that is not the head
C20_Witness ==
    /\ last.op = "bio"
    /\ \E i \in 1..Len(bond_log) :
          /\ bond_log[i].kind = "extend"
          /\ \E u \in Members(bond_log[i].members), w \in Members(bond_log[i].members) :
                bond_log[i].energy_before[u] < bond_log[i].energy_before[w]
          /\ bond_log[i].energy_after[bond_log[i].members[1]]
                = bond_log[i].energy_before[bond_log[i].members[1]]

\* ------------------------------------------------ bonding pass properties
\* the entries of the log of the given kind
EventsOf(kind) == SelectSeq(bond_log, LAMBDA ev : ev.kind = kind)

\* whether token t had no chain id and no bond in the state the entry's pair
\* was tested in
WasUnchained(ev, t) ==
    /\ ev.chain_id_before[t] = NoChain
    /\ ev.next_before[t] = None
    /\ ev.prev_before[t] = None

\* C21: every pair of tokens the combination pass bonds into a new chain
\* consists of two tokens that, when they are bonded, are in no chain (no
\* chain_id, no next or prev bond) and undamaged, and the bond strength of
\* the first to the second is above 50.
C21_OnlyFreeTokensStartChains ==
    last.op = "bio" =>
        \A i \in 1..Len(EventsOf("new")) :
            LET ev == EventsOf("new")[i]
            IN  /\ WasUnchained(ev, ev.first) /\ WasUnchained(ev, ev.other)
                /\ ~damaged[ev.first] /\ ~damaged[ev.other]
                /\ TokenCanBond(Bio, ev.first, ev.other)[2] > 50

\* C22: whenever the combination pass extends a chain, the token appended was
\* free (in no chain, undamaged), the chain's tail could bond to it with a
\* strength above 50, and the tail and the appended token are in the same
\* cell.
C22_ExtensionIsLocal ==
    last.op = "bio" =>
        \A i \in 1..Len(EventsOf("extend")) :
            LET ev == EventsOf("extend")[i]
            IN  /\ ev.chain_id_before[ev.other] = NoChain
                /\ ~damaged[ev.other]
                /\ TokenCanBond(Bio, ev.first, ev.other)[2] > 50
                /\ CellOfToken(ev.first) = CellOfToken(ev.other)

\* C23: a chain is validated again only when at least ValidateEvery ticks (10
\* in the program) have passed since its last validation: over any run a
\* chain's last_validated_tick never decreases, and when it changes it grows
\* by at least ValidateEvery.
C23_ValidationThrottle ==
    [][\A i \in 1..Len(chains), j \in 1..Len(chains') :
          chains[i].chain_id = chains'[j].chain_id =>
              /\ chains'[j].last_validated_tick >= chains[i].last_validated_tick
              /\ chains'[j].last_validated_tick # chains[i].last_validated_tick =>
                    chains'[j].last_validated_tick - chains[i].last_validated_tick
                        >= ValidateEvery
      ]_vars

\* the last pass validated a chain that had been validated before
C23_Witness ==
    /\ last.op = "bio"
    /\ \E i \in 1..Len(EventsOf("validate")) :
          /\ EventsOf("validate")[i].last > 0
          /\ \E k \in 1..Len(chains) :
                /\ chains[k].chain_id = EventsOf("validate")[i].chain
                /\ chains[k].last_validated_tick = EventsOf("validate")[i].tick

\* the strength the bond-strength table gives a pair of tokens, each given as
\* (value, type, damaged): none for a damaged token
TableStrength(a, b) ==
    LET rules == TableStrengths(a[1], a[2], b[1], b[2])
    IN  IF a[3] \/ b[3] \/ rules = {} THEN 0 ELSE CHOOSE n \in rules : TRUE

C25_DropWithoutCandidate ==
    last.op = "bio" =>
        \A i \in 1..Len(EventsOf("drop")) :
            LET ev == EventsOf("drop")[i]
            IN  /\ ev.next_after[ev.first] = None
                /\ ~InList(ev.members, ev.other)
                /\ ev.next_after[ev.other] = None /\ ev.prev_after[ev.other] = None
                /\ \A u \in AllTokens :
                      ev.next_after[u] # ev.other /\ ev.prev_after[u] # ev.other
                /\ ev.chain_id_after[ev.other] = NoChain
                /\ InList(ev.members, ev.first)
                /\ ev.tail_after = ev.first

C27_SeveredTokensLeaveChains ==
    [][(pc = "idle" /\ pc' = "damage" /\ ~hung') =>
          \A i \in 1..Len(EventsOf("sever")) :
              LET ev == EventsOf("sever")[i]
              IN  chain_id'[ev.self] = NoChain =>
                      \A k \in 1..Len(chains') :
                          chains'[k].chain_id = ev.chain =>
                              ~InList(chains'[k].tokens, ev.self)]_vars

\* C28: every TokenChain created gets a chain_id strictly greater than that of
\* every chain created before it (chains lists them in creation order) and
\* below the class counter, which never decreases; so no two chains in
\* BiochemistryEngine.chains ever share a chain_id.
C28_ChainIdsMonotone ==
    /\ [](\A j, k \in 1..Len(chains) :
             j < k => chains[j].chain_id < chains[k].chain_id)
    /\ [](\A k \in 1..Len(chains) : chains[k].chain_id < _next_chain_id)
    /\ [][_next_chain_id' >= _next_chain_id]_vars

\* a chain was created while an earlier chain existed, and both are listed
C28_Witness ==
    /\ Len(chains) >= 2
    /\ \E i \in 1..Len(EventsOf("new")) :
          /\ EventsOf("new")[i].chain = chains[Len(chains)].chain_id
          /\ EventsOf("new")[i].chain_id_before[chains[1].head] = chains[1].chain_id

\* the phases of Simulation.step in the order of the code
PhaseOrder ==
    { <<"idle", "physics">>, <<"physics", "bio">>, <<"bio", "damage">>,
      <<"damage", "repair">>, <<"repair", "idle">> }

\* C29: within every Simulation.step the phases run in the fixed order spawn,
\* physics movement, spillover sweep, bonding, damage (then repair): bonding
\* starts only from the state the spillover sweep left, the damage pass only
\* from the state the bonding pass left, and at the moment
\* BiochemistryEngine.update_all_chains begins no cell has
\* current_mass > MAX_CAPACITY.
C29_PhaseOrder ==
    /\ [][pc' # pc => <<pc, pc'>> \in PhaseOrder]_vars
    /\ [](pc = "bio" => last.op = "sweep")
    /\ [](pc = "damage" => last.op = "bio")
    /\ [](pc = "bio" => \A c \in DOMAIN current_mass : current_mass[c] <= MAX_CAPACITY)

\* bonding is about to start in a step after the first, with a cell filled to
\* its capacity
C29_Witness ==
    /\ pc = "bio" /\ tick >= 2 /\ all_tokens # {}
    /\ \E c \in DOMAIN current_mass : current_mass[c] = MAX_CAPACITY

\* C30: in Token.update_position a token with energy > 0 moves up exactly one
\* unit and its energy decreases by exactly 1; a token with energy <= 0 moves
\* down exactly one unit and its energy is unchanged (the velocity vz is added
\* to z on top of that).
C30_VerticalMotion ==
    [][calls' = calls + 1 =>
          /\ energy[TheToken] > 0 =>
                /\ z'[TheToken] - vz[TheToken] = z[TheToken] + Scale
                /\ energy'[TheToken] = energy[TheToken] - 1
          /\ energy[TheToken] <= 0 =>
                /\ z'[TheToken] - vz[TheToken] = z[TheToken] - Scale
                /\ energy'[TheToken] = energy[TheToken]]_vars

\* a second or later call has made a token without energy sink, its energy
\* staying at 0
C30_Witness ==
    /\ last.op = "update_position" /\ ~last.ret
    /\ calls >= 2 /\ energy[TheToken] = 0

\* the sinking tokens (energy <= 0) listed in cell c that are lower than z0
SinkersBelow(g, c, t, z0) ==
    {u \in Members(g.tokens[c]) : u # t /\ g.energy[u] <= 0 /\ g.z[u] < z0}

\* cell d is a horizontal neighbour of cell c at the same altitude
HorizontalNeighbour(c, d) ==
    /\ d # NoCell /\ d # c /\ d[3] = c[3]
    /\ Abs(d[1] - c[1]) <= 1 /\ Abs(d[2] - c[2]) <= 1

\* C31: whenever a token rises this tick (it had energy > 0 before the tick,
\* energy exactly 1 included) and the cell of its new position holds a sinking
\* token (energy <= 0) positioned lower, the rising token loses 1 energy on
\* top of the cost of the rise, and the sinking token ends in a horizontal
\* neighbour cell at the same altitude that had capacity for it, or is left
\* where it was if no such neighbour exists.
C31_RiseSinkCollision ==
    [][\A t \in AllTokens :
          (PhysicsToken(t) /\ t \in all_tokens /\ energy[t] > 0 /\ ~raised') =>
              LET r == update_position(Cur, t)
                  cell == get_cell_from_float(r.x[t], r.y[t], r.z[t])
                  S == IF cell = NoCell THEN {} ELSE SinkersBelow(Cur, cell, t, r.z[t])
              IN  (r.z[t] > z[t] /\ S # {}) =>
                      /\ energy'[t] <= energy[t] - 2
                      /\ \A u \in S :
                            LET d == get_cell_from_float(x'[u], y'[u], z'[u])
                            IN  \/ /\ HorizontalNeighbour(cell, d)
                                   /\ can_accept(Cur, d, u)
                                   /\ InList(tokens'[d], u)
                                \/ /\ <<x'[u], y'[u], z'[u]>> = <<x[u], y[u], z[u]>>
                                   /\ S = {u} => PushTargets(Cur, u, cell) = {}
      ]_vars

\* two states agree on token positions, energies and the registered tokens
SameOutcome(g, h) ==
    /\ g.x = h.x /\ g.y = h.y /\ g.z = h.z
    /\ g.energy = h.energy /\ g.all = h.all

\* C32: from identical conditions, and with every random choice resolved
\* identically, two runs reach identical token positions; in particular the
\* result of a physics pass in which no random choice has more than one
\* outcome does not depend on the order in which the grid's token set is
\* enumerated.
C32_OrderIndependence ==
    (pc = "idle" /\ ~raised) =>
        \A o1 \in SetOrders(all_tokens), o2 \in SetOrders(all_tokens) :
            LET r1 == update_all_tokens(Cur, o1)
                r2 == update_all_tokens(Cur, o2)
            IN  (Cardinality(r1) = 1 /\ Cardinality(r2) = 1) =>
                    \A g \in r1, h \in r2 : SameOutcome(g, h)

\* the cell of the vent
VentCell == << SizeX \div 2, SizeY \div 2, 0 >>

\* C33: the vent produces exactly one token on every spawn_rate-th call of
\* HydrothermalVent.update and none otherwise, always at the vent's position
\* with the spawn energy; Simulation.step offers it to the grid once, and if
\* the floor cell rejects it the grid (cell lists, cell masses, all_tokens) is
\* unchanged.
C33_SpawnInterval ==
    [][(pc = "idle" /\ pc' = "physics") =>
          /\ (last'.op = "spawn") <=> (tick' % SpawnRate = 0)
          /\ last'.op = "spawn" =>
                \E t \in Fresh :
                    /\ \A u \in AllTokens : (value'[u] # value[u]) <=> (u = t)
                    /\ x'[t] = ToFloat(VentCell[1]) /\ y'[t] = ToFloat(VentCell[2])
                    /\ z'[t] = ToFloat(VentCell[3])
                    /\ energy'[t] = SpawnEnergy
                    /\ last'.ret = TRUE =>
                          /\ all_tokens' = all_tokens \cup {t}
                          /\ tokens' = [tokens EXCEPT ![VentCell] = Append(@, t)]
                    /\ last'.ret = FALSE =>
                          /\ tokens' = tokens
                          /\ current_mass' = current_mass
                          /\ all_tokens' = all_tokens
          /\ last'.op # "spawn" =>
                /\ value' = value /\ tokens' = tokens
                /\ current_mass' = current_mass /\ all_tokens' = all_tokens
      ]_vars

\* the vent was due a second time or later, and the floor cell rejected the
\* token
C33_Witness ==
    /\ last.op = "spawn" /\ last.ret = FALSE
    /\ pc = "physics" /\ tick >= 2 * SpawnRate
    /\ \E t \in AllTokens : value[t] # "" /\ t \notin all_tokens /\ energy[t] = SpawnEnergy

\* C34: every Simulation.step that Simulation.run starts is completed, so that
\* the run reaches the next tick boundary (and through the boundaries the end
\* of its n steps, or the boundary at which a stop() takes effect).
\* A step that started and has not reached its end is one the interpreter can
\* still execute: it never stops inside a step.
C34_StepsTerminate == pc # "idle" => ~Halted

\* C37: in every state reached through add_token_to_grid, move_token and
\* _push_token_aside, mid-tick states included, every cell has
\* current_mass <= MAX_CAPACITY, so the spillover sweep of a tick relocates
\* and removes nothing.
C37_NeverOverCapacity ==
    /\ [](\A c \in Cells : current_mass[c] <= MAX_CAPACITY)
    /\ [][(pc = "physics" /\ pc' = "idle") =>
             /\ tokens' = tokens /\ current_mass' = current_mass
             /\ all_tokens' = all_tokens
             /\ x' = x /\ y' = y /\ z' = z]_vars

\* a sweep has just run on a grid with a cell filled exactly to its capacity
C37_Witness ==
    /\ last.op = "sweep" /\ pc = "idle"
    /\ \E c \in Cells : current_mass[c] = MAX_CAPACITY

\* the first token of the linked chain of t: prev_token followed to its end
RECURSIVE FirstFrom(_, _)
FirstFrom(t, fuel) ==
    IF prev_token[t] = None \/ fuel = 0 THEN t
    ELSE FirstFrom(prev_token[t], fuel - 1)

\* the total mass of the linked chain that t is part of
LinkedChainMass(t) == SumMass(Traversal(FirstFrom(t, Fuel)))

\* C36: for every token t of a chain, whatever its position in the chain
\* (head, middle or tail), Token.get_chain_mass() returns the total mass of
\* all tokens of the chain t belongs to.
C36_ChainMassIsTotal ==
    ~hung =>
        \A t \in all_tokens :
            chain_id[t] # NoChain => get_chain_mass(t) = LinkedChainMass(t)

====
